---- MODULE Spec2Model ----
(***************************************************************************)
(* A model of the interactive graph-editing engine of preact-node-system:  *)
(* the undo/redo history store (useHistory), the coordinator's graph       *)
(* mutations (NodeSystem), the connection-drag controller                  *)
(* (useConnectionDrag), the node-drag controller (useNodeDrag), the        *)
(* splice resolver (NodePlatform.handleNodeDragEndWrapper) and the         *)
(* keyboard shortcuts (useKeyboardShortcuts).                              *)
(***************************************************************************)
EXTENDS Integers, Sequences, FiniteSets, TLC

\* ------------------------------------------------------------------ bounds
\* useHistory(initialPresent, maxHistory = 50)
maxHistory == 50
\* operations applied to the history store in one run of SpecHistory
MaxOps == 4
\* input events (pointer and keyboard) handled in one run of Spec
MaxEvents == 3
\* pointer events handled in one run of SpecPointers
MaxPointerEvents == 4

VARIABLES
    gh,        \* SpecHistory: the store's HistoryState<T> (T = integers)
    ghTrail    \* SpecHistory: the operations applied so far, each with the state before it

VARIABLES
    history,           \* NodeSystem: HistoryState<AppState>, AppState = {nodes, connections}
    isDragging,        \* NodeSystem: isDraggingRef.current
    newConnection,     \* useConnectionDrag: newConnection ({from} | {to} | null)
    connectionPreview, \* useConnectionDrag: connectionPreview (its start; null)
    portPositions,     \* NodePlatform: portPositions, keyed by <<nodeId, portName>>
    warningMessage,    \* NodePlatform: warningMessage
    clipboard,         \* NodePlatform: clipboardRef.current
    listeners,         \* the window pointermove/pointerup listeners of the gestures
                       \* (useNodeDrag, useSelectionBox, the pan of onPointerDown), oldest
                       \* first, each with the render its closures were created in
    selectionBox,      \* useSelectionBox: selectionBox ({start, end} | null)
    drag,              \* useNodeDrag: dragState.current of the Node being dragged
    pointer,           \* the primary pointer: where it was pressed, if it is down
    nextId,            \* the next fresh node id (Date.now()-Math.random() is fresh each time)
    nextRef,           \* the next connection object (c !== d compares object identity)
    lastEvt,           \* the last input event and its arguments
    nEvents            \* input events handled so far

VARIABLES
    offset,    \* SpecViewport: usePanning's offset
    scale,     \* SpecViewport: usePanning's scale, in thousandths
    nWheel     \* SpecViewport: wheel events handled so far

VARIABLES
    committed,         \* SpecDisplay: the store (history) of the NodeSystem displayed
    returningCallback, \* SpecDisplay: the host's returningCallback prop
    processedState,    \* SpecDisplay: processedStateRef.current, what NodePlatform is given
    lastRender,        \* SpecDisplay: what caused the last render, and the store before it
    nRenders           \* SpecDisplay: operations of the host so far

VARIABLES
    dragStates,  \* SpecPointers: dragState.current of every Node, by node id
    pressed,     \* SpecPointers: what each pointer that is down was pressed on
    ended,       \* SpecPointers: the onDragEnd calls of the last event (node ids)
    lastPtr      \* SpecPointers: the pointerId of the last event

histVars == <<gh, ghTrail>>
editorVars == <<history, isDragging, newConnection, connectionPreview, portPositions,
                warningMessage, clipboard, listeners, selectionBox, drag, pointer,
                nextId, nextRef, lastEvt, nEvents>>
viewVars == <<offset, scale, nWheel>>
dispVars == <<committed, returningCallback, processedState, lastRender, nRenders>>
ptrVars == <<dragStates, pressed, ended, lastPtr>>
vars == <<histVars, editorVars, viewVars, dispVars, ptrVars>>

\* ------------------------------------------------------------ sequences
Min(S) == CHOOSE m \in S : \A k \in S : m <= k
Abs(i) == IF i < 0 THEN -i ELSE i

RECURSIVE SumSeq(_)
SumSeq(s) == IF s = <<>> THEN 0 ELSE Head(s) + SumSeq(Tail(s))

\* ----------------------------------------------------------- node types
\* The host's catalog: the example's add and subtract blocks, and its test
\* block with two of its seven inputs (its output is written in ASCII).
PortDef(n, t) == [name |-> n, type |-> t]
nodeTypes ==
    [add      |-> [inputs  |-> <<PortDef("A", "number"), PortDef("B", "number")>>,
                   outputs |-> <<PortDef("Result", "number")>>],
     subtract |-> [inputs  |-> <<PortDef("A", "number"), PortDef("B", "number")>>,
                   outputs |-> <<PortDef("Result", "number")>>],
     test     |-> [inputs  |-> <<PortDef("Boolean", "boolean"), PortDef("Numer", "number")>>,
                   outputs |-> <<PortDef("Wyjscie", "number")>>]]

Directions == {"input", "output"}
PortsOf(type, direction) ==
    IF direction = "input" THEN nodeTypes[type].inputs ELSE nodeTypes[type].outputs

\* ports.find(p => p.name === name): whether there is one, and the first one
HasPortDef(ports, name) == \E i \in DOMAIN ports : ports[i].name = name
FindPortDef(ports, name) == ports[Min({i \in DOMAIN ports : ports[i].name = name})]

\* ------------------------------------------------------ nodes, connections
NodeData(id, type, x, y, selected) ==
    [id |-> id, type |-> type, x |-> x, y |-> y, selected |-> selected]
Endpoint(nodeId, port) == [nodeId |-> nodeId, port |-> port]
\* an endpoint that is undefined (node ids are positive, port names non-empty)
NoEndpoint == Endpoint(0, "")
\* ref stands for the identity of the connection object
Connection(ref, from, to) == [ref |-> ref, from |-> from, to |-> to]

\* nodes.find(n => n.id === id): whether there is one, and the first one
HasNode(nodes, id) == \E i \in DOMAIN nodes : nodes[i].id = id
FindNode(nodes, id) == nodes[Min({i \in DOMAIN nodes : nodes[i].id = id})]

NodeIds(nodes) == {nodes[i].id : i \in DOMAIN nodes}
SelectedNodes(nodes) == SelectSeq(nodes, LAMBDA n : n.selected)

\* --------------------------------------------------------------- geometry
Point(x, y) == [x |-> x, y |-> y]

\* Where the rendered node puts its port dots, relative to the node's x, y:
\* the inputs in a column on the left, the outputs in a column on the right,
\* one row per port.  (With these offsets the centroid of a node with two
\* inputs and one output has integer coordinates.)
PortOffset(direction, idx) ==
    Point(IF direction = "output" THEN 30 ELSE 0, 12 * (idx - 1))

\* The centre of a port dot of a rendered node, in world coordinates
DomPortPos(node, direction, idx) ==
    Point(node.x + PortOffset(direction, idx).x, node.y + PortOffset(direction, idx).y)

\* distance(a, b) squared: distances are only ever compared
Dist2(a, b) == (a.x - b.x) * (a.x - b.x) + (a.y - b.y) * (a.y - b.y)

\* distancePointToSegment(p, a, b) squared, as a fraction num/den
distancePointToSegment2(p, a, b) ==
    LET l2 == Dist2(a, b)
        tn == (p.x - a.x) * (b.x - a.x) + (p.y - a.y) * (b.y - a.y)   \* t = tn / l2
    IN  IF l2 = 0 THEN [num |-> Dist2(p, a), den |-> 1]
        ELSE IF tn <= 0 THEN [num |-> Dist2(p, a), den |-> 1]         \* t clamped to 0
        ELSE IF tn >= l2 THEN [num |-> Dist2(p, b), den |-> 1]        \* t clamped to 1
        ELSE [num |-> Dist2(p, a) * l2 - tn * tn, den |-> l2]

\* a/b < c/d for a, c >= 0 and b, d > 0, without forming a*d
RECURSIVE FracLess(_, _, _, _)
FracLess(a, b, c, d) ==
    LET q1 == a \div b
        q2 == c \div d
        r1 == a % b
        r2 == c % d
    IN  IF q1 # q2 THEN q1 < q2
        ELSE IF r2 = 0 THEN FALSE
        ELSE IF r1 = 0 THEN TRUE
        ELSE FracLess(d, r2, b, r1)

DistLess(f, g) == FracLess(f.num, f.den, g.num, g.den)

\* const SPLICE_THRESHOLD = 50
SPLICE_THRESHOLD == 50

\* ------------------------------------------------- useHistory (generic in T)
canUndo(h) == Len(h.past) > 0
canRedo(h) == Len(h.future) > 0

\* undo that leaves the restored entry on past
undo_PastKept(curr) ==
    IF Len(curr.past) = 0 THEN curr
    ELSE [past    |-> curr.past,
          present |-> curr.past[Len(curr.past)],
          future  |-> <<curr.present>> \o curr.future]

\* undo with the previous present put at the back of future
undo_FutureAtBack(curr) ==
    IF Len(curr.past) = 0 THEN curr
    ELSE [past    |-> SubSeq(curr.past, 1, Len(curr.past) - 1),
          present |-> curr.past[Len(curr.past)],
          future  |-> Append(curr.future, curr.present)]

undo(curr) ==
    IF Len(curr.past) = 0 THEN curr
    ELSE [past    |-> SubSeq(curr.past, 1, Len(curr.past) - 1),
          present |-> curr.past[Len(curr.past)],
          future  |-> <<curr.present>> \o curr.future]

\* redo that does not put the present back on past
redo_PresentLost(curr) ==
    IF Len(curr.future) = 0 THEN curr
    ELSE [past    |-> curr.past,
          present |-> curr.future[1],
          future  |-> Tail(curr.future)]

redo(curr) ==
    IF Len(curr.future) = 0 THEN curr
    ELSE [past    |-> Append(curr.past, curr.present),
          present |-> curr.future[1],
          future  |-> Tail(curr.future)]

\* set whose replace branch empties future
set_ReplaceClearsFuture(curr, newPresent, replace) ==
    IF replace THEN [curr EXCEPT !.present = newPresent, !.future = <<>>]
    ELSE LET pushed  == Append(curr.past, curr.present)
             newPast == IF Len(pushed) > maxHistory THEN Tail(pushed) ELSE pushed
         IN  [past |-> newPast, present |-> newPresent, future |-> <<>>]

\* set without the eviction of the oldest entry
set_NoEviction(curr, newPresent, replace) ==
    IF replace THEN [curr EXCEPT !.present = newPresent]
    ELSE [past |-> Append(curr.past, curr.present), present |-> newPresent, future |-> <<>>]

\* set that leaves future as it was
set_KeepsFuture(curr, newPresent, replace) ==
    IF replace THEN [curr EXCEPT !.present = newPresent]
    ELSE LET pushed  == Append(curr.past, curr.present)
             newPast == IF Len(pushed) > maxHistory THEN Tail(pushed) ELSE pushed
         IN  [past |-> newPast, present |-> newPresent, future |-> curr.future]

set(curr, newPresent, replace) ==
    IF replace THEN [curr EXCEPT !.present = newPresent]
    ELSE LET pushed  == Append(curr.past, curr.present)
             newPast == IF Len(pushed) > maxHistory THEN Tail(pushed) ELSE pushed
         IN  [past |-> newPast, present |-> newPresent, future |-> <<>>]

\* ------------------------------------------------------------- NodeSystem
\* Each handler is a closure over the nodes and connections of one render, R,
\* and calls set on the history as it is when the call is made, h.
AppState(nodes, connections) == [nodes |-> nodes, connections |-> connections]

handleNodeMove(h, R, id, x, y, dragging) ==
    set(h,
        AppState([i \in DOMAIN R.nodes |->
                     IF R.nodes[i].id = id
                     THEN [R.nodes[i] EXCEPT !.x = x, !.y = y]
                     ELSE R.nodes[i]],
                 R.connections),
        dragging)

\* handleNodeSelect(null)
handleNodeSelectNone(h, R) ==
    set(h,
        AppState([i \in DOMAIN R.nodes |-> [R.nodes[i] EXCEPT !.selected = FALSE]],
                 R.connections),
        TRUE)

\* handleNodeSelect(id, evt), id a string; ctrl is evt.ctrlKey || evt.metaKey
handleNodeSelect(h, R, id, ctrl) ==
    set(h,
        AppState(IF ctrl
                 THEN [i \in DOMAIN R.nodes |->
                          IF R.nodes[i].id = id
                          THEN [R.nodes[i] EXCEPT !.selected = ~R.nodes[i].selected]
                          ELSE R.nodes[i]]
                 ELSE [i \in DOMAIN R.nodes |->
                          [R.nodes[i] EXCEPT !.selected = (R.nodes[i].id = id)]],
                 R.connections),
        TRUE)

\* handleNodeSelect(ids, evt), ids an array
handleNodeSelectMany(h, R, ids) ==
    set(h,
        AppState([i \in DOMAIN R.nodes |->
                     [R.nodes[i] EXCEPT !.selected = (R.nodes[i].id \in ids)]],
                 R.connections),
        TRUE)

\* handleCompleteConnection that puts the new connection first
handleCompleteConnection_Prepends(h, R, connection) ==
    set(h, AppState(R.nodes, <<connection>> \o R.connections), FALSE)

handleCompleteConnection(h, R, connection) ==
    set(h, AppState(R.nodes, Append(R.connections, connection)), FALSE)

\* handleNodeDelete that keeps the connections leaving a deleted node
handleNodeDelete_KeepsOutgoing(h, R, idsToDelete) ==
    set(h,
        AppState(SelectSeq(R.nodes, LAMBDA n : n.id \notin idsToDelete),
                 SelectSeq(R.connections, LAMBDA c : c.to.nodeId \notin idsToDelete)),
        FALSE)

handleNodeDelete(h, R, idsToDelete) ==
    set(h,
        AppState(SelectSeq(R.nodes, LAMBDA n : n.id \notin idsToDelete),
                 SelectSeq(R.connections,
                           LAMBDA c : c.from.nodeId \notin idsToDelete
                                      /\ c.to.nodeId \notin idsToDelete)),
        FALSE)

\* handlePasteNodes that leaves the selection of the nodes already there
handlePasteNodes_KeepsSelection(h, R, newNodes) ==
    set(h, AppState(R.nodes \o newNodes, R.connections), FALSE)

handlePasteNodes(h, R, newNodes) ==
    set(h,
        AppState([i \in DOMAIN R.nodes |-> [R.nodes[i] EXCEPT !.selected = FALSE]]
                     \o newNodes,
                 R.connections),
        FALSE)

\* onDeleteConnection: connections.filter(c => c !== connection)
onDeleteConnection(h, R, connection) ==
    set(h,
        AppState(R.nodes, SelectSeq(R.connections, LAMBDA c : c.ref # connection.ref)),
        FALSE)

\* handleSpliceNode as NodePlatform calls it (no newX, newY); current is
\* stateRef.current, ref1 and ref2 the two connection objects it creates
handleSpliceNode(h, current, nodeId, connectionToRemove, inputPort, outputPort, ref1, ref2) ==
    LET connectionIn  == Connection(ref1, connectionToRemove.from, Endpoint(nodeId, inputPort))
        connectionOut == Connection(ref2, Endpoint(nodeId, outputPort), connectionToRemove.to)
    IN  set(h,
            AppState(current.nodes,
                     SelectSeq(current.connections,
                               LAMBDA c : c.ref # connectionToRemove.ref)
                         \o <<connectionIn, connectionOut>>),
            FALSE)

\* ------------------------------------------- useConnectionDrag: validation
\* newConnection: {from: e} is ["from", e], {to: e} is ["to", e], null is NoConnection
NewConnection(side, nodeId, port) == [side |-> side, nodeId |-> nodeId, port |-> port]
NoConnection == NewConnection("none", 0, "")
Preview(shown, start) == [shown |-> shown, start |-> start]
NoPreview == Preview(FALSE, Point(0, 0))

\* A warning message: its fixed text and the names put into it
Warning(text, a, b) == [text |-> text, a |-> a, b |-> b]
NoWarning == Warning("", "", "")

\* The endpoints handlePortPointerUp resolves when the pointer is released on
\* port `port` of node nodeId
Candidate(nc, nodeId, port, direction) ==
    IF direction = "input"
    THEN [from |-> IF nc.side = "from" THEN Endpoint(nc.nodeId, nc.port) ELSE NoEndpoint,
          to   |-> Endpoint(nodeId, port)]
    ELSE [from |-> Endpoint(nodeId, port),
          to   |-> IF nc.side = "to" THEN Endpoint(nc.nodeId, nc.port) ELSE NoEndpoint]

\* the test for a missing endpoint left out
MissingEndpoint_Never(cand) == FALSE

\* !fromNodeId || !fromPortName || !toNodeId || !toPortName
MissingEndpoint(cand) == cand.from = NoEndpoint \/ cand.to = NoEndpoint

\* fromNode ? nodeTypes[fromNode.type] : undefined
HasNodeType(nodes, id) == HasNode(nodes, id) /\ FindNode(nodes, id).type \in DOMAIN nodeTypes
NodeTypeOf(nodes, id) == nodeTypes[FindNode(nodes, id).type]

HasFromPortDef(nodes, cand) ==
    /\ HasNodeType(nodes, cand.from.nodeId)
    /\ HasPortDef(NodeTypeOf(nodes, cand.from.nodeId).outputs, cand.from.port)
FromPortDef(nodes, cand) ==
    FindPortDef(NodeTypeOf(nodes, cand.from.nodeId).outputs, cand.from.port)

HasToPortDef(nodes, cand) ==
    /\ HasNodeType(nodes, cand.to.nodeId)
    /\ HasPortDef(NodeTypeOf(nodes, cand.to.nodeId).inputs, cand.to.port)
ToPortDef(nodes, cand) ==
    FindPortDef(NodeTypeOf(nodes, cand.to.nodeId).inputs, cand.to.port)

isDuplicate(edges, cand) ==
    \E i \in DOMAIN edges : edges[i].from = cand.from /\ edges[i].to = cand.to

\* the input test looking for the dragged port's name on the destination node
inputAlreadyConnected_WrongPort(edges, cand) ==
    \E i \in DOMAIN edges :
        edges[i].to.nodeId = cand.to.nodeId /\ edges[i].to.port = cand.from.port

inputAlreadyConnected(edges, cand) ==
    \E i \in DOMAIN edges : edges[i].to = cand.to

\* the validation chain without the comparison of the port types
ValidationWarning_NoTypeCheck(nodes, edges, cand) ==
    IF cand.from.nodeId = cand.to.nodeId
    THEN Warning("Cannot connect a node to itself", "", "")
    ELSE IF ~HasNodeType(nodes, cand.from.nodeId) \/ ~HasNodeType(nodes, cand.to.nodeId)
    THEN Warning("Invalid node types", "", "")
    ELSE IF ~HasFromPortDef(nodes, cand) \/ ~HasToPortDef(nodes, cand)
    THEN Warning("Port not found in node definition", "", "")
    ELSE IF isDuplicate(edges, cand)
    THEN Warning("This connection already exists", "", "")
    ELSE IF inputAlreadyConnected(edges, cand)
    THEN Warning("Input port \"${toPortName}\" is already connected", cand.to.port, "")
    ELSE NoWarning


\* the validation chain without the check that the input is free
ValidationWarning_NoInputCheck(nodes, edges, cand) ==
    IF cand.from.nodeId = cand.to.nodeId
    THEN Warning("Cannot connect a node to itself", "", "")
    ELSE IF ~HasNodeType(nodes, cand.from.nodeId) \/ ~HasNodeType(nodes, cand.to.nodeId)
    THEN Warning("Invalid node types", "", "")
    ELSE IF ~HasFromPortDef(nodes, cand) \/ ~HasToPortDef(nodes, cand)
    THEN Warning("Port not found in node definition", "", "")
    ELSE IF FromPortDef(nodes, cand).type # ToPortDef(nodes, cand).type
    THEN Warning("Cannot connect ports of different types: ${fromPortDef.type} and ${toPortDef.type}", FromPortDef(nodes, cand).type,
                 ToPortDef(nodes, cand).type)
    ELSE IF isDuplicate(edges, cand)
    THEN Warning("This connection already exists", "", "")
    ELSE NoWarning


\* the validation chain without the self-loop check
ValidationWarning_NoSelfLoopCheck(nodes, edges, cand) ==
    IF ~HasNodeType(nodes, cand.from.nodeId) \/ ~HasNodeType(nodes, cand.to.nodeId)
    THEN Warning("Invalid node types", "", "")
    ELSE IF ~HasFromPortDef(nodes, cand) \/ ~HasToPortDef(nodes, cand)
    THEN Warning("Port not found in node definition", "", "")
    ELSE IF FromPortDef(nodes, cand).type # ToPortDef(nodes, cand).type
    THEN Warning("Cannot connect ports of different types: ${fromPortDef.type} and ${toPortDef.type}", FromPortDef(nodes, cand).type,
                 ToPortDef(nodes, cand).type)
    ELSE IF isDuplicate(edges, cand)
    THEN Warning("This connection already exists", "", "")
    ELSE IF inputAlreadyConnected(edges, cand)
    THEN Warning("Input port \"${toPortName}\" is already connected", cand.to.port, "")
    ELSE NoWarning


\* The validation chain of handlePortPointerUp for a candidate with both
\* endpoints: the warning it sets, NoWarning when it commits.
\* the chain with the comparison of the port types made before the test for
\* a connection of a node to itself
ValidationWarning_TypesFirst(nodes, edges, cand) ==
    IF /\ HasNodeType(nodes, cand.from.nodeId) /\ HasNodeType(nodes, cand.to.nodeId)
       /\ HasFromPortDef(nodes, cand) /\ HasToPortDef(nodes, cand)
       /\ FromPortDef(nodes, cand).type # ToPortDef(nodes, cand).type
    THEN Warning("Cannot connect ports of different types: ${fromPortDef.type} and ${toPortDef.type}", FromPortDef(nodes, cand).type,
                 ToPortDef(nodes, cand).type)
    ELSE IF cand.from.nodeId = cand.to.nodeId
    THEN Warning("Cannot connect a node to itself", "", "")
    ELSE IF ~HasNodeType(nodes, cand.from.nodeId) \/ ~HasNodeType(nodes, cand.to.nodeId)
    THEN Warning("Invalid node types", "", "")
    ELSE IF ~HasFromPortDef(nodes, cand) \/ ~HasToPortDef(nodes, cand)
    THEN Warning("Port not found in node definition", "", "")
    ELSE IF isDuplicate(edges, cand)
    THEN Warning("This connection already exists", "", "")
    ELSE IF inputAlreadyConnected(edges, cand)
    THEN Warning("Input port \"${toPortName}\" is already connected", cand.to.port, "")
    ELSE NoWarning

ValidationWarning(nodes, edges, cand) ==
    IF cand.from.nodeId = cand.to.nodeId
    THEN Warning("Cannot connect a node to itself", "", "")
    ELSE IF ~HasNodeType(nodes, cand.from.nodeId) \/ ~HasNodeType(nodes, cand.to.nodeId)
    THEN Warning("Invalid node types", "", "")
    ELSE IF ~HasFromPortDef(nodes, cand) \/ ~HasToPortDef(nodes, cand)
    THEN Warning("Port not found in node definition", "", "")
    ELSE IF FromPortDef(nodes, cand).type # ToPortDef(nodes, cand).type
    THEN Warning("Cannot connect ports of different types: ${fromPortDef.type} and ${toPortDef.type}", FromPortDef(nodes, cand).type,
                 ToPortDef(nodes, cand).type)
    ELSE IF isDuplicate(edges, cand)
    THEN Warning("This connection already exists", "", "")
    ELSE IF inputAlreadyConnected(edges, cand)
    THEN Warning("Input port \"${toPortName}\" is already connected", cand.to.port, "")
    ELSE NoWarning

\* ------------------------------------------------------------ NodePlatform
\* A render of the platform: the props NodeSystem passed (R = {nodes, edges}
\* and the handlers closed over them) and the portPositions state (pp).
View(R, pp) == [R |-> R, pp |-> pp]

\* portPositions[`${nodeId}-${portName}`]
PortKey(nodeId, portName) == <<nodeId, portName>>
EmptyPositions == [k \in {} |-> Point(0, 0)]

\* The port dots of a rendered node in document order: inputs, then outputs
PortDots(node) ==
    LET ins  == nodeTypes[node.type].inputs
        outs == nodeTypes[node.type].outputs
    IN  [i \in DOMAIN ins  |-> [name |-> ins[i].name,  p |-> DomPortPos(node, "input", i)]]
        \o [i \in DOMAIN outs |-> [name |-> outs[i].name, p |-> DomPortPos(node, "output", i)]]

\* Node.updatePortPositions with handlePortPositionChange for every dot:
\* setPortPositions(prev => ({...prev, [key]: position})), the last dot of a name winning
MeasuredPositions(pp, node) ==
    LET dots == PortDots(node)
        keys == {PortKey(node.id, dots[i].name) : i \in DOMAIN dots}
        last(k) == CHOOSE i \in DOMAIN dots :
                       /\ PortKey(node.id, dots[i].name) = k
                       /\ \A j \in DOMAIN dots : PortKey(node.id, dots[j].name) = k => j <= i
    IN  [k \in (DOMAIN pp) \cup keys |-> IF k \in keys THEN dots[last(k)].p ELSE pp[k]]

\* The onMove handed to each Node: a selected node moves every selected node,
\* one onNodeMove call each, all closed over the same nodes
RECURSIVE MoveEach(_, _, _, _, _, _)
MoveEach(h, R, selectedNodes, dx, dy, dragging) ==
    IF selectedNodes = <<>> THEN h
    ELSE LET sn == Head(selectedNodes)
         IN  MoveEach(handleNodeMove(h, R, sn.id, sn.x + dx, sn.y + dy, dragging),
                      R, Tail(selectedNodes), dx, dy, dragging)

onMove(h, R, id, x, y, dragging) ==
    IF ~HasNode(R.nodes, id) THEN h
    ELSE LET node == FindNode(R.nodes, id)
         IN  IF node.selected
             THEN MoveEach(h, R, SelectedNodes(R.nodes), x - node.x, y - node.y, dragging)
             ELSE handleNodeMove(h, R, id, x, y, dragging)

\* ------------------------------------------------- the splice resolver
NoSplice == [found |-> FALSE, edge |-> Connection(0, NoEndpoint, NoEndpoint),
             inputPort |-> "", outputPort |-> ""]

\* The dots of the dropped node as the document shows them (dom: the nodes
\* last rendered), split by the type definition: inputPositions, outputPositions
InputPositions(dom, nodeId, nodeType) ==
    IF ~HasNode(dom, nodeId) THEN <<>>
    ELSE SelectSeq(PortDots(FindNode(dom, nodeId)),
                   LAMBDA d : HasPortDef(nodeType.inputs, d.name))

OutputPositions(dom, nodeId, nodeType) ==
    IF ~HasNode(dom, nodeId) THEN <<>>
    ELSE SelectSeq(PortDots(FindNode(dom, nodeId)),
                   LAMBDA d : ~HasPortDef(nodeType.inputs, d.name)
                              /\ HasPortDef(nodeType.outputs, d.name))

\* nodeCenter = {x: centerX / count, y: centerY / count}
NodeCenter(positions) ==
    Point(SumSeq([i \in DOMAIN positions |-> positions[i].p.x]) \div Len(positions),
          SumSeq([i \in DOMAIN positions |-> positions[i].p.y]) \div Len(positions))

\* the loop without its first test: edges touching the node are considered too
Spliceable_TouchingToo(V, nodeId, i) ==
    LET edge == V.R.connections[i]
    IN  /\ PortKey(edge.from.nodeId, edge.from.port) \in DOMAIN V.pp
        /\ PortKey(edge.to.nodeId, edge.to.port) \in DOMAIN V.pp

\* The edges the loop considers: not touching the node, both ends in portPositions
Spliceable(V, nodeId, i) ==
    LET edge == V.R.connections[i]
    IN  /\ edge.from.nodeId # nodeId
        /\ edge.to.nodeId # nodeId
        /\ PortKey(edge.from.nodeId, edge.from.port) \in DOMAIN V.pp
        /\ PortKey(edge.to.nodeId, edge.to.port) \in DOMAIN V.pp

EdgeDist2(V, center, i) ==
    LET edge == V.R.connections[i]
    IN  distancePointToSegment2(center,
                                V.pp[PortKey(edge.from.nodeId, edge.from.port)],
                                V.pp[PortKey(edge.to.nodeId, edge.to.port)])

\* dist < SPLICE_THRESHOLD
WithinThreshold(f) == DistLess(f, [num |-> SPLICE_THRESHOLD * SPLICE_THRESHOLD, den |-> 1])

\* for (const edge of edges) { ... if (dist < SPLICE_THRESHOLD && dist < minDist) ... }:
\* the indices of the edges within the threshold, and the first nearest of them
SpliceCandidates(V, nodeId, center) ==
    {i \in DOMAIN V.R.connections :
        Spliceable(V, nodeId, i) /\ WithinThreshold(EdgeDist2(V, center, i))}

BestConnection(V, nodeId, center) ==
    CHOOSE i \in SpliceCandidates(V, nodeId, center) :
        \A j \in SpliceCandidates(V, nodeId, center) :
            /\ j < i => DistLess(EdgeDist2(V, center, i), EdgeDist2(V, center, j))
            /\ j > i => ~DistLess(EdgeDist2(V, center, j), EdgeDist2(V, center, i))

\* for (const input of inputPositions) { if (d < minInputDist) ... }: the
\* first port nearest to pos
BestPort(positions, pos) ==
    positions[CHOOSE i \in DOMAIN positions :
                 \A j \in DOMAIN positions :
                     /\ j < i => Dist2(positions[i].p, pos) < Dist2(positions[j].p, pos)
                     /\ j > i => Dist2(positions[i].p, pos) <= Dist2(positions[j].p, pos)].name

\* handleNodeDragEndWrapper after onNodeDragEnd: the onSpliceNode call it
\* makes, if any.  V is the render the wrapper was created in.
SpliceChoice(V, dom, nodeId) ==
    IF ~HasNode(V.R.nodes, nodeId) THEN NoSplice
    ELSE IF FindNode(V.R.nodes, nodeId).type \notin DOMAIN nodeTypes THEN NoSplice
    ELSE LET nodeType        == nodeTypes[FindNode(V.R.nodes, nodeId).type]
             inputPositions  == InputPositions(dom, nodeId, nodeType)
             outputPositions == OutputPositions(dom, nodeId, nodeType)
             center          == NodeCenter(inputPositions \o outputPositions)
         IN  IF Len(inputPositions) + Len(outputPositions) = 0 THEN NoSplice
             ELSE IF SpliceCandidates(V, nodeId, center) = {} THEN NoSplice
             ELSE LET edge == V.R.connections[BestConnection(V, nodeId, center)]
                      startPos == V.pp[PortKey(edge.from.nodeId, edge.from.port)]
                      endPos   == V.pp[PortKey(edge.to.nodeId, edge.to.port)]
                  IN  IF inputPositions = <<>> \/ outputPositions = <<>> THEN NoSplice
                      ELSE [found      |-> TRUE,
                            edge       |-> edge,
                            inputPort  |-> BestPort(inputPositions, startPos),
                            outputPort |-> BestPort(outputPositions, endPos)]

\* -------------------------------------------------------------- useNodeDrag
\* dragState.current of one Node instance; dead: the instance is unmounted
DragState(dragging, nodeId, initX, initY, hasMoved, selectOnUp, dead) ==
    [dragging |-> dragging, nodeId |-> nodeId, initX |-> initX, initY |-> initY,
     hasMoved |-> hasMoved, selectOnUp |-> selectOnUp, dead |-> dead]
NoDrag == DragState(FALSE, 0, 0, 0, FALSE, FALSE, FALSE)

\* the test that takes any movement of the pointer for a drag
movedEnough_AnyMove(dx, dy) == dx # 0 \/ dy # 0

\* onPointerMove: whether the pointer is far enough from where it was pressed
\* to consider the gesture a drag
movedEnough(dx, dy) == Abs(dx) > 2 \/ Abs(dy) > 2

\* The pair of window listeners one pointer-down adds; they are never removed
Listener(nodeId, view) ==
    [kind |-> "node", nodeId |-> nodeId, view |-> view, dead |-> FALSE, start |-> Point(0, 0)]

\* if (!dragState.current.dragging) return: the listeners of the instance being dragged
Hears(l, dr) == dr.dragging /\ l.nodeId = dr.nodeId /\ l.dead = dr.dead

\* window pointermove: every listener runs, oldest first
RECURSIVE onPointerMove(_, _, _, _, _)
onPointerMove(h, ls, dr, d, dragging) ==
    IF ls = <<>> THEN h
    ELSE onPointerMove(IF Hears(Head(ls), dr)
                       THEN onMove(h, Head(ls).view.R, dr.nodeId,
                                   dr.initX + d.x, dr.initY + d.y, dragging)
                       ELSE h,
                       Tail(ls), dr, d, dragging)

\* window pointerup: the oldest listener of the instance ends the drag, the
\* later ones find dragging false
FirstHearing(ls, dr) == Min({i \in DOMAIN ls : Hears(ls[i], dr)})

\* What a render leaves of the listeners: those of an instance that was
\* unmounted can never run again (its dragState is no longer written), unless
\* it is the one being dragged
Unmounted(before, after) == NodeIds(before.nodes) \ NodeIds(after.nodes)

DragAfterRender(dr, before, after) ==
    IF dr.dragging /\ ~dr.dead /\ dr.nodeId \in Unmounted(before, after)
    THEN [dr EXCEPT !.dead = TRUE]
    ELSE dr

ListenersAfterRender(ls, dr, before, after) ==
    LET kept == SelectSeq(ls, LAMBDA l :
                    IF l.dead THEN dr.dragging
                    ELSE l.nodeId \in Unmounted(before, after) => Hears(l, dr))
    IN  [i \in DOMAIN kept |->
            IF ~kept[i].dead /\ kept[i].nodeId \in Unmounted(before, after)
            THEN [kept[i] EXCEPT !.dead = TRUE]
            ELSE kept[i]]

\* ---------------------------------------------------------- useSelectionBox
Max(S) == CHOOSE m \in S : \A k \in S : m >= k

\* The box of a rendered node (el.getBoundingClientRect()): its port dots lie
\* on its left and right edges
NodeWidth == 30
NodeHeight == 24
BoundingClientRect(node) ==
    [left |-> node.x, top |-> node.y,
     right |-> node.x + NodeWidth, bottom |-> node.y + NodeHeight]

SelectionBox(start, end) == [shown |-> TRUE, start |-> start, end |-> end]
NoBox == [shown |-> FALSE, start |-> Point(0, 0), end |-> Point(0, 0)]

\* up: the ids of the rendered nodes whose box meets the normalized rectangle
selectedIds(dom, boxStart, boxEnd) ==
    LET left   == Min({boxStart.x, boxEnd.x})
        top    == Min({boxStart.y, boxEnd.y})
        right  == Max({boxStart.x, boxEnd.x})
        bottom == Max({boxStart.y, boxEnd.y})
        intersects(rect) == ~(\/ rect.right < left
                              \/ rect.left > right
                              \/ rect.bottom < top
                              \/ rect.top > bottom)
    IN  {dom[i].id : i \in {j \in DOMAIN dom : intersects(BoundingClientRect(dom[j]))}}

\* The pair of window listeners a press on the background adds: those of the
\* box selection close over onNodeSelect of the render R and the start
\* corner, those of the pan over nothing of the graph
GestureListener(kind, R, start) ==
    [kind |-> kind, nodeId |-> 0, view |-> View(R, EmptyPositions), dead |-> FALSE,
     start |-> start]
PanListener == GestureListener("pan", AppState(<<>>, <<>>), Point(0, 0))

HasBoxListener(ls) == \E i \in DOMAIN ls : ls[i].kind = "box"

\* window pointerup at p: the `up` of every pan and box listener among ls,
\* oldest first (dom: the nodes rendered last)
RECURSIVE GestureUps(_, _, _, _)
GestureUps(h, ls, dom, p) ==
    IF ls = <<>> THEN h
    ELSE LET l   == Head(ls)
             ids == selectedIds(dom, l.start, p)
         IN  GestureUps(IF l.kind = "box" /\ ids # {}
                        THEN handleNodeSelectMany(h, l.view.R, ids)
                        ELSE h,
                        Tail(ls), dom, p)

\* removeEventListener in every `up` of a pan or a box selection
Released(ls) == SelectSeq(ls, LAMBDA l : l.kind = "node")

\* ================================================================ the editor
\* The last input event: its kind, the node it was on, the candidate
\* connection a release on a port resolved (the port pressed, for a press on a
\* port), whether a connection drag was in progress (a multi-select modifier
\* held, for a press on a node), and the snapshot the handlers of the event
\* were rendered from.
NoCandidate == [from |-> NoEndpoint, to |-> NoEndpoint]
Evt(kind, nodeId, cand, had, before) ==
    [kind |-> kind, nodeId |-> nodeId, cand |-> cand, had |-> had, before |-> before]

\* What caused a render: the operation, the store before it and the snapshot
\* it was given
RenderCause(op, before, arg) == [op |-> op, before |-> before, arg |-> arg]

\* No second pointer is followed outside the specification of the pointers
PointersAtRest ==
    /\ dragStates = <<>>
    /\ pressed = <<>>
    /\ ended = <<>>
    /\ lastPtr = 0

\* The viewport and the display are not exercised with the editor or the store
ViewportAtRest ==
    /\ offset = Point(0, 0)
    /\ scale = 1000
    /\ nWheel = 0
DisplayAtRest ==
    /\ committed = [past |-> <<>>, present |-> AppState(<<>>, <<>>), future |-> <<>>]
    /\ returningCallback = "none"
    /\ processedState = AppState(<<>>, <<>>)
    /\ lastRender = RenderCause("mount", committed, AppState(<<>>, <<>>))
    /\ nRenders = 0

\* The graphs the host mounts the editor with (initialNodes, initialConnections)
Wire12 == Connection(1, Endpoint(1, "Result"), Endpoint(2, "A"))
Wire13 == Connection(2, Endpoint(1, "Result"), Endpoint(3, "Numer"))
InitialGraphs ==
    { \* the three blocks, unconnected
      AppState(<<NodeData(1, "add", 0, 0, FALSE), NodeData(2, "subtract", 90, 0, FALSE),
                 NodeData(3, "test", 50, 56, FALSE)>>, <<>>),
      \* block 1 feeding blocks 2 and 3
      AppState(<<NodeData(1, "add", 0, 0, FALSE), NodeData(2, "subtract", 90, 0, FALSE),
                 NodeData(3, "test", 50, 56, FALSE)>>, <<Wire12, Wire13>>),
      \* block 3 lying over the wire from 1 to 2, blocks 1 and 3 selected
      AppState(<<NodeData(1, "add", 0, 0, TRUE), NodeData(2, "subtract", 90, 0, FALSE),
                 NodeData(3, "test", 50, 16, TRUE)>>, <<Wire12>>) }

\* Where the pointer can be taken to during a node drag, relative to where it
\* was pressed (e.clientX - startX, e.clientY - startY)
Offsets == {Point(1, 0), Point(0, -40), Point(-40, 0)}
\* mousePosition in platform coordinates when Ctrl+V is pressed
PasteAt == Point(20, 20)
Modifiers == {"none", "ctrl", "shift"}
\* Where the pointer can be pressed on the background and taken to during a
\* box selection: above and left of every node, on the dot of input A of
\* block 2, and below the top row of blocks
BoxCorners == {Point(-10, -10), Point(90, 0), Point(100, 30)}

Init ==
    /\ \E g \in InitialGraphs : history = [past |-> <<>>, present |-> g, future |-> <<>>]
    /\ isDragging = FALSE
    /\ newConnection = NoConnection
    /\ connectionPreview = NoPreview
    /\ portPositions = EmptyPositions
    /\ warningMessage = NoWarning
    /\ clipboard = <<>>
    /\ listeners = <<>>
    /\ selectionBox = NoBox
    /\ drag = NoDrag
    /\ pointer = "idle"
    /\ nextId = 4
    /\ nextRef = 3
    /\ lastEvt = Evt("mount", 0, NoCandidate, FALSE, AppState(<<>>, <<>>))
    /\ nEvents = 0
    /\ gh = [past |-> <<>>, present |-> 0, future |-> <<>>]
    /\ ghTrail = <<>>
    /\ ViewportAtRest
    /\ DisplayAtRest
    /\ PointersAtRest

\* Node's effect: setTimeout(updatePortPositions, 0) after every render
MeasurePorts(n) ==
    /\ HasNode(history.present.nodes, n)
    /\ portPositions' = MeasuredPositions(portPositions, FindNode(history.present.nodes, n))
    /\ portPositions' # portPositions
    /\ UNCHANGED <<history, isDragging, newConnection, connectionPreview, warningMessage,
                   clipboard, listeners, drag, pointer, nextId, nextRef, lastEvt, nEvents>>
    /\ UNCHANGED <<selectionBox, histVars, viewVars, dispVars, ptrVars>>

\* a timer that only runs out while no button is down
WarningTimeout_OnlyWhenIdle ==
    /\ warningMessage # NoWarning
    /\ pointer = "idle"
    /\ warningMessage' = NoWarning
    /\ lastEvt' = Evt("timeout", 0, NoCandidate, FALSE, history.present)
    /\ UNCHANGED <<history, isDragging, newConnection, connectionPreview, portPositions,
                   clipboard, listeners, drag, pointer, nextId, nextRef, nEvents>>
    /\ UNCHANGED <<selectionBox, histVars, viewVars, dispVars, ptrVars>>

\* NodePlatform's effect: setTimeout(() => setWarningMessage(null), 3000)
WarningTimeout ==
    /\ warningMessage # NoWarning
    /\ warningMessage' = NoWarning
    /\ lastEvt' = Evt("timeout", 0, NoCandidate, FALSE, history.present)
    /\ UNCHANGED <<history, isDragging, newConnection, connectionPreview, portPositions,
                   clipboard, listeners, drag, pointer, nextId, nextRef, nEvents>>
    /\ UNCHANGED <<selectionBox, histVars, viewVars, dispVars, ptrVars>>

\* pointerdown on a port dot: handlePortPointerDown (the dot stops propagation)
PortPointerDown(n, direction, idx) ==
    /\ pointer = "idle"
    /\ nEvents < MaxEvents
    /\ HasNode(history.present.nodes, n)
    /\ idx \in DOMAIN PortsOf(FindNode(history.present.nodes, n).type, direction)
    /\ LET R    == history.present
           port == PortsOf(FindNode(R.nodes, n).type, direction)[idx]
           known == PortKey(n, port.name) \in DOMAIN portPositions
           grabbed == {i \in DOMAIN R.connections :
                          R.connections[i].to = Endpoint(n, port.name)}
           disconnects == known /\ direction = "input" /\ grabbed # {}
       IN  /\ warningMessage' = NoWarning
           /\ history' = IF disconnects
                         THEN onDeleteConnection(history, R, R.connections[Min(grabbed)])
                         ELSE history
           /\ newConnection' =
                 IF known /\ ~disconnects
                 THEN NewConnection(IF direction = "output" THEN "from" ELSE "to", n, port.name)
                 ELSE newConnection
           /\ connectionPreview' =
                 IF known /\ ~disconnects
                 THEN Preview(TRUE, portPositions[PortKey(n, port.name)])
                 ELSE connectionPreview
           /\ lastEvt' = Evt("portDown", n,
                             IF direction = "output"
                             THEN [from |-> Endpoint(n, port.name), to |-> NoEndpoint]
                             ELSE [from |-> NoEndpoint, to |-> Endpoint(n, port.name)],
                             disconnects, R)
    /\ pointer' = "port"
    /\ nEvents' = nEvents + 1
    /\ UNCHANGED <<isDragging, portPositions, clipboard, listeners, drag, nextId, nextRef>>
    /\ UNCHANGED <<selectionBox, histVars, viewVars, dispVars, ptrVars>>

\* handlePortPointerUp on the dot idx of node n (the dot stops propagation, so
\* neither the platform's onPointerUp nor the window listeners run)
PortReleased(n, direction, idx) ==
    /\ nEvents < MaxEvents
    /\ HasNode(history.present.nodes, n)
    /\ idx \in DOMAIN PortsOf(FindNode(history.present.nodes, n).type, direction)
    /\ LET R    == history.present
           port == PortsOf(FindNode(R.nodes, n).type, direction)[idx]
           cand == Candidate(newConnection, n, port.name, direction)
           had  == newConnection # NoConnection
           warn == ValidationWarning(R.nodes, R.connections, cand)
           runs == had /\ ~MissingEndpoint(cand)
       IN  /\ warningMessage' = IF runs /\ warn # NoWarning THEN warn ELSE warningMessage
           /\ history' = IF runs /\ warn = NoWarning
                         THEN handleCompleteConnection(history, R,
                                                       Connection(nextRef, cand.from, cand.to))
                         ELSE history
           /\ nextRef' = IF runs /\ warn = NoWarning THEN nextRef + 1 ELSE nextRef
           /\ lastEvt' = Evt("portUp", n, cand, had, R)
    /\ newConnection' = NoConnection
    /\ connectionPreview' = NoPreview
    /\ pointer' = "idle"
    /\ nEvents' = nEvents + 1
    /\ UNCHANGED <<isDragging, portPositions, clipboard, listeners, drag, nextId>>
    /\ UNCHANGED <<selectionBox, histVars, viewVars, dispVars, ptrVars>>

\* pointerup on a port dot after a press on a port dot
PortPointerUp(n, direction, idx) ==
    /\ pointer = "port"
    /\ PortReleased(n, direction, idx)

\* the nodes on the platform, and whether a point is on one or on a port dot
OverNode(p) ==
    \E i \in DOMAIN history.present.nodes :
        LET rect == BoundingClientRect(history.present.nodes[i])
        IN  rect.left <= p.x /\ p.x <= rect.right /\ rect.top <= p.y /\ p.y <= rect.bottom
OverDot(p, n, direction, idx) ==
    DomPortPos(FindNode(history.present.nodes, n), direction, idx) = p
OverPortDot(p) ==
    \E i \in DOMAIN history.present.nodes : \E direction \in Directions :
        \E idx \in DOMAIN PortsOf(history.present.nodes[i].type, direction) :
            DomPortPos(history.present.nodes[i], direction, idx) = p

\* pointerup on a port dot after a press on the background: the pointer of a
\* box selection is where its last pointermove took it
PointerUpOnPortDot(n, direction, idx) ==
    /\ pointer \in {"platform", "box"}
    /\ HasNode(history.present.nodes, n)
    /\ idx \in DOMAIN PortsOf(FindNode(history.present.nodes, n).type, direction)
    /\ pointer = "box" => OverDot(selectionBox.end, n, direction, idx)
    /\ PortReleased(n, direction, idx)

\* The buttons other than the primary one: the middle one and the secondary
AuxButtons == {1, 2}

\* onPointerDown that lets a Shift press go on to the deselect and the pan
onPointerDown_ShiftFallsThrough(h, R, ls, box, button, shift, ctrl, p) ==
    IF button = 1
    THEN [history |-> h, listeners |-> Append(ls, PanListener), selectionBox |-> box,
          warningCleared |-> FALSE]
    ELSE IF button # 0
    THEN [history |-> h, listeners |-> ls, selectionBox |-> box, warningCleared |-> FALSE]
    ELSE [history |-> IF ctrl THEN h ELSE handleNodeSelectNone(h, R),
          listeners |-> Append(IF shift THEN Append(ls, GestureListener("box", R, p))
                               ELSE ls, PanListener),
          selectionBox |-> IF shift THEN SelectionBox(p, p) ELSE box,
          warningCleared |-> TRUE]

\* onPointerDown of the platform, at p on the background: the middle button
\* pans (handleMiddleMousePan) and nothing else runs; any other button than
\* the primary does nothing; Shift starts a box selection
\* (handleSelectionStart) and nothing else runs; otherwise the nodes are
\* deselected unless Ctrl/Cmd is held, and the primary button pans
onPointerDown(h, R, ls, box, button, shift, ctrl, p) ==
    IF button = 1
    THEN [history |-> h, listeners |-> Append(ls, PanListener), selectionBox |-> box,
          warningCleared |-> FALSE]
    ELSE IF button # 0
    THEN [history |-> h, listeners |-> ls, selectionBox |-> box, warningCleared |-> FALSE]
    ELSE IF shift
    THEN [history |-> h, listeners |-> Append(ls, GestureListener("box", R, p)),
          selectionBox |-> SelectionBox(p, p), warningCleared |-> TRUE]
    ELSE [history |-> IF ctrl THEN h ELSE handleNodeSelectNone(h, R),
          listeners |-> Append(ls, PanListener), selectionBox |-> box,
          warningCleared |-> TRUE]

\* pointerdown on the platform background, primary button, no Shift:
\* onPointerDown
PlatformPointerDown(ctrl) ==
    /\ pointer = "idle"
    /\ nEvents < MaxEvents
    /\ LET r == onPointerDown(history, history.present, listeners, selectionBox,
                              0, FALSE, ctrl, Point(0, 0))
       IN  /\ warningMessage' = IF r.warningCleared THEN NoWarning ELSE warningMessage
           /\ history' = r.history
           /\ listeners' = r.listeners
           /\ selectionBox' = r.selectionBox
    /\ lastEvt' = Evt("platformDown", 0, NoCandidate, FALSE, history.present)
    /\ pointer' = "platform"
    /\ nEvents' = nEvents + 1
    /\ UNCHANGED <<isDragging, newConnection, connectionPreview, portPositions, clipboard,
                   drag, nextId, nextRef>>
    /\ UNCHANGED <<histVars, viewVars, dispVars, ptrVars>>

\* pointerdown on the platform background with the middle or the secondary
\* button: onPointerDown -> handleMiddleMousePan
AuxPointerDown(button) ==
    /\ pointer = "idle"
    /\ nEvents < MaxEvents
    /\ LET r == onPointerDown(history, history.present, listeners, selectionBox,
                              button, FALSE, FALSE, Point(0, 0))
       IN  /\ warningMessage' = IF r.warningCleared THEN NoWarning ELSE warningMessage
           /\ history' = r.history
           /\ listeners' = r.listeners
           /\ selectionBox' = r.selectionBox
    /\ lastEvt' = Evt(IF button = 1 THEN "middleDown" ELSE "otherDown", 0, NoCandidate,
                      FALSE, history.present)
    /\ pointer' = "platform"
    /\ nEvents' = nEvents + 1
    /\ UNCHANGED <<isDragging, newConnection, connectionPreview, portPositions, clipboard,
                   drag, nextId, nextRef>>
    /\ UNCHANGED <<histVars, viewVars, dispVars, ptrVars>>

\* pointerdown on the platform background with Shift: onPointerDown ->
\* handleSelectionStart
BoxPointerDown(p) ==
    /\ pointer = "idle"
    /\ nEvents < MaxEvents
    /\ ~OverNode(p)
    /\ LET r == onPointerDown(history, history.present, listeners, selectionBox,
                              0, TRUE, FALSE, p)
       IN  /\ warningMessage' = IF r.warningCleared THEN NoWarning ELSE warningMessage
           /\ history' = r.history
           /\ listeners' = r.listeners
           /\ selectionBox' = r.selectionBox
    /\ lastEvt' = Evt("boxDown", 0, NoCandidate, FALSE, history.present)
    /\ pointer' = "box"
    /\ nEvents' = nEvents + 1
    /\ UNCHANGED <<isDragging, newConnection, connectionPreview, portPositions,
                   clipboard, drag, nextId, nextRef>>
    /\ UNCHANGED <<histVars, viewVars, dispVars, ptrVars>>

\* pointermove during a box selection: the `move` listeners
BoxPointerMove(q) ==
    /\ pointer = "box"
    /\ nEvents < MaxEvents
    /\ q # selectionBox.end
    /\ selectionBox' = [selectionBox EXCEPT !.end = q]
    /\ lastEvt' = Evt("boxMove", 0, NoCandidate, FALSE, history.present)
    /\ nEvents' = nEvents + 1
    /\ UNCHANGED <<history, isDragging, newConnection, connectionPreview, portPositions,
                   warningMessage, clipboard, listeners, drag, pointer, nextId, nextRef>>
    /\ UNCHANGED <<histVars, viewVars, dispVars, ptrVars>>

\* Where a pointerup that reaches the window can be: where the box selection
\* in progress was taken to; anywhere, for a box listener left by an earlier
\* gesture; of no matter without box listeners
ReleasePoints ==
    IF pointer = "box" THEN {selectionBox.end}
    ELSE IF HasBoxListener(listeners) THEN BoxCorners
    ELSE {Point(0, 0)}

\* the platform's pointerup that clears the drag but leaves the preview line
handlePointerUp_KeepsPreview ==
    [newConnection |-> NoConnection, connectionPreview |-> connectionPreview]

\* useConnectionDrag.handlePointerUp: what it leaves of the connection drag
handlePointerUp ==
    [newConnection |-> NoConnection, connectionPreview |-> NoPreview]

\* pointerup inside the platform, not on a port dot and with no node
\* captured: onPointerUp -> handleConnectionPointerUp, then the window
\* pointerup listeners of the pan and of the box selection
PlatformPointerUp ==
    /\ pointer \in {"port", "platform", "box"}
    /\ nEvents < MaxEvents
    /\ pointer = "box" => ~OverPortDot(selectionBox.end)
    /\ newConnection' = handlePointerUp.newConnection
    /\ connectionPreview' = handlePointerUp.connectionPreview
    /\ \E p \in ReleasePoints :
          history' = GestureUps(history, listeners, history.present.nodes, p)
    /\ listeners' = Released(listeners)
    /\ selectionBox' = IF HasBoxListener(listeners) THEN NoBox ELSE selectionBox
    /\ lastEvt' = Evt("platformUp", 0, NoCandidate, newConnection # NoConnection,
                      history.present)
    /\ pointer' = "idle"
    /\ nEvents' = nEvents + 1
    /\ UNCHANGED <<isDragging, portPositions, warningMessage, clipboard,
                   drag, nextId, nextRef>>
    /\ UNCHANGED <<histVars, viewVars, dispVars, ptrVars>>

\* pointerup outside the platform element: none of its handlers run, the
\* window pointerup listeners do
PointerUpOutside ==
    /\ pointer \in {"port", "platform", "box"}
    /\ nEvents < MaxEvents
    /\ pointer = "box" => ~OverPortDot(selectionBox.end)
    /\ \E p \in ReleasePoints :
          history' = GestureUps(history, listeners, history.present.nodes, p)
    /\ listeners' = Released(listeners)
    /\ selectionBox' = IF HasBoxListener(listeners) THEN NoBox ELSE selectionBox
    /\ lastEvt' = Evt("upOutside", 0, NoCandidate, newConnection # NoConnection,
                      history.present)
    /\ pointer' = "idle"
    /\ nEvents' = nEvents + 1
    /\ UNCHANGED <<isDragging, newConnection, connectionPreview, portPositions,
                   warningMessage, clipboard, drag, nextId, nextRef>>
    /\ UNCHANGED <<histVars, viewVars, dispVars, ptrVars>>

\* pointerdown on a node body, primary button: useNodeDrag.onPointerDown (it
\* stops propagation, so the platform's onPointerDown does not run)
NodePointerDown(n, mods) ==
    /\ pointer = "idle"
    /\ nEvents < MaxEvents
    /\ HasNode(history.present.nodes, n)
    /\ LET R    == history.present
           node == FindNode(R.nodes, n)
           isMultiSelect == mods \in {"ctrl", "shift"}
           selects == ~node.selected \/ isMultiSelect
       IN  /\ history' = IF selects
                         THEN handleNodeSelect(history, R, n, mods = "ctrl")
                         ELSE history
           /\ drag' = DragState(TRUE, n, node.x, node.y, FALSE, ~selects, FALSE)
           /\ listeners' = Append(listeners, Listener(n, View(R, portPositions)))
           /\ lastEvt' = Evt("nodeDown", n, NoCandidate, isMultiSelect, R)
    /\ isDragging' = TRUE
    /\ pointer' = "node"
    /\ nEvents' = nEvents + 1
    /\ UNCHANGED <<newConnection, connectionPreview, portPositions, warningMessage,
                   clipboard, nextId, nextRef>>
    /\ UNCHANGED <<selectionBox, histVars, viewVars, dispVars, ptrVars>>

\* pointermove while a node is captured: every window pointermove listener
\* (the platform's own onPointerMove only moves the end of the preview)
NodePointerMove(d) ==
    /\ pointer = "node"
    /\ nEvents < MaxEvents
    /\ LET R  == history.present
           h1 == onPointerMove(history, listeners, drag, d, isDragging)
           dr == [drag EXCEPT !.hasMoved = @ \/ movedEnough(d.x, d.y)]
       IN  /\ history' = h1
           /\ drag' = DragAfterRender(dr, R, h1.present)
           /\ listeners' = ListenersAfterRender(listeners, dr, R, h1.present)
           /\ lastEvt' = Evt("nodeMove", drag.nodeId, NoCandidate, FALSE, R)
    /\ nEvents' = nEvents + 1
    /\ UNCHANGED <<isDragging, newConnection, connectionPreview, portPositions,
                   warningMessage, clipboard, pointer, nextId, nextRef>>
    /\ UNCHANGED <<selectionBox, histVars, viewVars, dispVars, ptrVars>>

\* pointerup while a node is captured: the platform's onPointerUp, then the
\* window pointerup listeners, oldest first: useNodeDrag.onPointerUp with
\* handleNodeDragEndWrapper as onDragEnd, and the `up` of any pan or box
\* selection an earlier gesture left.  ctrl: e.ctrlKey || e.metaKey.
NodePointerUp(ctrl) ==
    /\ pointer = "node"
    /\ nEvents < MaxEvents
    /\ \E p \in ReleasePoints :
       LET R  == history.present
           k  == FirstHearing(listeners, drag)
           V  == listeners[k].view
           h0 == GestureUps(history, SubSeq(listeners, 1, k - 1), R.nodes, p)
           h1 == IF ~drag.hasMoved /\ drag.selectOnUp
                 THEN handleNodeSelect(h0, V.R, drag.nodeId, ctrl)
                 ELSE h0
           sc == SpliceChoice(V, R.nodes, drag.nodeId)
           h2 == IF sc.found
                 THEN handleSpliceNode(h1, R, drag.nodeId, sc.edge, sc.inputPort,
                                       sc.outputPort, nextRef, nextRef + 1)
                 ELSE h1
           h3 == GestureUps(h2, SubSeq(listeners, k + 1, Len(listeners)), R.nodes, p)
       IN  /\ history' = h3
           /\ nextRef' = IF sc.found THEN nextRef + 2 ELSE nextRef
           /\ listeners' = ListenersAfterRender(Released(listeners), NoDrag, R, h3.present)
           /\ selectionBox' = IF HasBoxListener(listeners) THEN NoBox ELSE selectionBox
           /\ lastEvt' = Evt("nodeUp", drag.nodeId,
                             IF sc.found THEN [from |-> sc.edge.from, to |-> sc.edge.to]
                             ELSE NoCandidate,
                             sc.found, R)
    /\ drag' = NoDrag
    /\ isDragging' = FALSE
    /\ newConnection' = handlePointerUp.newConnection
    /\ connectionPreview' = handlePointerUp.connectionPreview
    /\ pointer' = "idle"
    /\ nEvents' = nEvents + 1
    /\ UNCHANGED <<portPositions, warningMessage, clipboard, nextId>>
    /\ UNCHANGED <<histVars, viewVars, dispVars, ptrVars>>

\* ---------------------------------------------------- useKeyboardShortcuts
\* selectedNodes.map(node => ({...node, selected: false}))
Copied(nodes) ==
    LET sel == SelectedNodes(nodes)
    IN  [i \in DOMAIN sel |-> [sel[i] EXCEPT !.selected = FALSE]]

\* the copies Ctrl+V makes of the clipboard, with ids from id on
Pasted(clip, id) ==
    LET minX == Min({clip[i].x : i \in DOMAIN clip})
        minY == Min({clip[i].y : i \in DOMAIN clip})
    IN  [i \in DOMAIN clip |->
            [clip[i] EXCEPT !.id = id + i - 1,
                            !.x = PasteAt.x + (clip[i].x - minX) + 20,
                            !.y = PasteAt.y + (clip[i].y - minY) + 20,
                            !.selected = TRUE]]

\* Delete or Backspace
KeyDelete ==
    /\ nEvents < MaxEvents
    /\ SelectedNodes(history.present.nodes) # <<>>
    /\ LET R  == history.present
           h1 == handleNodeDelete(history, R, NodeIds(SelectedNodes(R.nodes)))
       IN  /\ history' = h1
           /\ drag' = DragAfterRender(drag, R, h1.present)
           /\ listeners' = ListenersAfterRender(listeners, drag, R, h1.present)
           /\ lastEvt' = Evt("delete", 0, NoCandidate, FALSE, R)
    /\ nEvents' = nEvents + 1
    /\ UNCHANGED <<isDragging, newConnection, connectionPreview, portPositions,
                   warningMessage, clipboard, pointer, nextId, nextRef>>
    /\ UNCHANGED <<selectionBox, histVars, viewVars, dispVars, ptrVars>>

\* Delete or Backspace with no node selected: handleKeyDown calls nothing
KeyDeleteUnselected ==
    /\ nEvents < MaxEvents
    /\ SelectedNodes(history.present.nodes) = <<>>
    /\ lastEvt' = Evt("delete", 0, NoCandidate, FALSE, history.present)
    /\ nEvents' = nEvents + 1
    /\ UNCHANGED <<history, isDragging, newConnection, connectionPreview, portPositions,
                   warningMessage, clipboard, listeners, drag, pointer, nextId, nextRef>>
    /\ UNCHANGED <<selectionBox, histVars, viewVars, dispVars, ptrVars>>

\* Ctrl+C
KeyCopy ==
    /\ nEvents < MaxEvents
    /\ SelectedNodes(history.present.nodes) # <<>>
    /\ clipboard' = Copied(history.present.nodes)
    /\ lastEvt' = Evt("copy", 0, NoCandidate, FALSE, history.present)
    /\ nEvents' = nEvents + 1
    /\ UNCHANGED <<history, isDragging, newConnection, connectionPreview, portPositions,
                   warningMessage, listeners, drag, pointer, nextId, nextRef>>
    /\ UNCHANGED <<selectionBox, histVars, viewVars, dispVars, ptrVars>>

\* Ctrl+X
KeyCut ==
    /\ nEvents < MaxEvents
    /\ SelectedNodes(history.present.nodes) # <<>>
    /\ LET R  == history.present
           h1 == handleNodeDelete(history, R, NodeIds(SelectedNodes(R.nodes)))
       IN  /\ clipboard' = Copied(R.nodes)
           /\ history' = h1
           /\ drag' = DragAfterRender(drag, R, h1.present)
           /\ listeners' = ListenersAfterRender(listeners, drag, R, h1.present)
           /\ lastEvt' = Evt("cut", 0, NoCandidate, FALSE, R)
    /\ nEvents' = nEvents + 1
    /\ UNCHANGED <<isDragging, newConnection, connectionPreview, portPositions,
                   warningMessage, pointer, nextId, nextRef>>
    /\ UNCHANGED <<selectionBox, histVars, viewVars, dispVars, ptrVars>>

\* Ctrl+V: onNodeSelect(null), then onPasteNodes(newNodes)
KeyPaste ==
    /\ nEvents < MaxEvents
    /\ clipboard # <<>>
    /\ LET R == history.present
       IN  /\ history' = handlePasteNodes(handleNodeSelectNone(history, R), R,
                                          Pasted(clipboard, nextId))
           /\ lastEvt' = Evt("paste", 0, NoCandidate, FALSE, R)
    /\ nextId' = nextId + Len(clipboard)
    /\ nEvents' = nEvents + 1
    /\ UNCHANGED <<isDragging, newConnection, connectionPreview, portPositions,
                   warningMessage, clipboard, listeners, drag, pointer, nextRef>>
    /\ UNCHANGED <<selectionBox, histVars, viewVars, dispVars, ptrVars>>

\* ArrowUp, ArrowDown, ArrowLeft or ArrowRight without Ctrl/Cmd: one onNodeMove
\* call per selected node, all closed over the same nodes
ArrowKeys == {"ArrowUp", "ArrowDown", "ArrowLeft", "ArrowRight"}
ArrowDelta(key, shift) ==
    LET step == IF shift THEN 50 ELSE 10
    IN  CASE key = "ArrowUp"    -> Point(0, -step)
          [] key = "ArrowDown"  -> Point(0, step)
          [] key = "ArrowLeft"  -> Point(-step, 0)
          [] key = "ArrowRight" -> Point(step, 0)

KeyArrow(key, shift) ==
    /\ nEvents < MaxEvents
    /\ SelectedNodes(history.present.nodes) # <<>>
    /\ LET R == history.present
       IN  /\ history' = MoveEach(history, R, SelectedNodes(R.nodes),
                                  ArrowDelta(key, shift).x, ArrowDelta(key, shift).y,
                                  isDragging)
           /\ lastEvt' = Evt(key, 0, NoCandidate, shift, R)
    /\ nEvents' = nEvents + 1
    /\ UNCHANGED <<isDragging, newConnection, connectionPreview, portPositions,
                   warningMessage, clipboard, listeners, drag, pointer, nextId, nextRef>>
    /\ UNCHANGED <<selectionBox, histVars, viewVars, dispVars, ptrVars>>

\* ------------------------------------------- NodeSystem: Ctrl+Z, Ctrl+Y
Undo ==
    /\ nEvents < MaxEvents
    /\ canUndo(history)
    /\ history' = undo(history)
    /\ drag' = DragAfterRender(drag, history.present, undo(history).present)
    /\ listeners' = ListenersAfterRender(listeners, drag, history.present,
                                         undo(history).present)
    /\ lastEvt' = Evt("undo", 0, NoCandidate, FALSE, history.present)
    /\ nEvents' = nEvents + 1
    /\ UNCHANGED <<isDragging, newConnection, connectionPreview, portPositions,
                   warningMessage, clipboard, pointer, nextId, nextRef>>
    /\ UNCHANGED <<selectionBox, histVars, viewVars, dispVars, ptrVars>>

Redo ==
    /\ nEvents < MaxEvents
    /\ canRedo(history)
    /\ history' = redo(history)
    /\ drag' = DragAfterRender(drag, history.present, redo(history).present)
    /\ listeners' = ListenersAfterRender(listeners, drag, history.present,
                                         redo(history).present)
    /\ lastEvt' = Evt("redo", 0, NoCandidate, FALSE, history.present)
    /\ nEvents' = nEvents + 1
    /\ UNCHANGED <<isDragging, newConnection, connectionPreview, portPositions,
                   warningMessage, clipboard, pointer, nextId, nextRef>>
    /\ UNCHANGED <<selectionBox, histVars, viewVars, dispVars, ptrVars>>

\* the nodes on the platform and the port dots of each
Rendered == NodeIds(history.present.nodes)
Dots(n, direction) == DOMAIN PortsOf(FindNode(history.present.nodes, n).type, direction)

Next ==
    \/ \E n \in Rendered : MeasurePorts(n)
    \/ WarningTimeout
    \/ \E n \in Rendered, direction \in Directions : \E idx \in Dots(n, direction) :
          PortPointerDown(n, direction, idx)
    \/ \E n \in Rendered, direction \in Directions : \E idx \in Dots(n, direction) :
          PortPointerUp(n, direction, idx)
    \/ \E ctrl \in BOOLEAN : PlatformPointerDown(ctrl)
    \/ PlatformPointerUp
    \/ PointerUpOutside
    \/ \E n \in Rendered, mods \in Modifiers : NodePointerDown(n, mods)
    \/ \E d \in Offsets : NodePointerMove(d)
    \/ \E ctrl \in BOOLEAN : NodePointerUp(ctrl)
    \/ KeyDelete
    \/ KeyCopy
    \/ KeyCut
    \/ KeyPaste
    \/ Undo
    \/ Redo

Spec == Init /\ [][Next]_vars

\* The selection gestures and the keyboard on their own: clicks on nodes and
\* on the background, box selections and the keys, with no port measured
NextSelection ==
    \/ \E ctrl \in BOOLEAN : PlatformPointerDown(ctrl)
    \/ \E button \in AuxButtons : AuxPointerDown(button)
    \/ \E p \in BoxCorners : BoxPointerDown(p)
    \/ \E q \in BoxCorners : BoxPointerMove(q)
    \/ PlatformPointerUp
    \/ PointerUpOutside
    \/ \E n \in Rendered, direction \in Directions : \E idx \in Dots(n, direction) :
          PointerUpOnPortDot(n, direction, idx)
    \/ \E n \in Rendered, mods \in Modifiers : NodePointerDown(n, mods)
    \/ \E ctrl \in BOOLEAN : NodePointerUp(ctrl)
    \/ KeyDelete
    \/ KeyDeleteUnselected
    \/ KeyCopy
    \/ KeyCut
    \/ KeyPaste
    \/ \E key \in ArrowKeys, shift \in BOOLEAN : KeyArrow(key, shift)
    \/ Undo
    \/ Redo

SpecSelection == Init /\ [][NextSelection]_vars

\* ========================================================= claims: the graph
Present == history.present

\* the release on a port that was the last event resolved both endpoints
ReleasedCandidate ==
    /\ lastEvt.kind = "portUp"
    /\ lastEvt.had
    /\ ~MissingEndpoint(lastEvt.cand)

\* ... to declared ports of existing nodes with known types
EndpointsResolve ==
    /\ ReleasedCandidate
    /\ HasFromPortDef(lastEvt.before.nodes, lastEvt.cand)
    /\ HasToPortDef(lastEvt.before.nodes, lastEvt.cand)

\* the snapshot now is the one the release was handled in plus the candidate
Committed ==
    /\ Present.nodes = lastEvt.before.nodes
    /\ Len(Present.connections) = Len(lastEvt.before.connections) + 1
    /\ SubSeq(Present.connections, 1, Len(lastEvt.before.connections))
          = lastEvt.before.connections
    /\ Present.connections[Len(Present.connections)].from = lastEvt.cand.from
    /\ Present.connections[Len(Present.connections)].to = lastEvt.cand.to

\* the destination input of the candidate had a connection from another source
TargetTakenByOther ==
    \E i \in DOMAIN lastEvt.before.connections :
        /\ lastEvt.before.connections[i].to = lastEvt.cand.to
        /\ lastEvt.before.connections[i].from # lastEvt.cand.from

AlreadyConnectedWarning ==
    Warning("Input port \"${toPortName}\" is already connected", lastEvt.cand.to.port, "")

\* C1: in every reachable state each input port (nodeId, port) is the
\* destination of at most one connection (I3).
C1_InputTargetedOnce ==
    \A i, j \in DOMAIN Present.connections :
        Present.connections[i].to = Present.connections[j].to => i = j

\* C2: a candidate released on a port whose endpoints resolve to declared
\* ports of existing nodes is committed if and only if the port types are
\* equal, the node ids differ, no connection has the same four fields and the
\* destination input is not yet the target of a connection; otherwise the
\* connections stay as they were.
C2_CommitIffValid ==
    EndpointsResolve =>
        LET cand  == lastEvt.cand
            B     == lastEvt.before
            valid ==
                /\ FromPortDef(B.nodes, cand).type = ToPortDef(B.nodes, cand).type
                /\ cand.from.nodeId # cand.to.nodeId
                /\ ~\E i \in DOMAIN B.connections :
                       /\ B.connections[i].from.nodeId = cand.from.nodeId
                       /\ B.connections[i].from.port = cand.from.port
                       /\ B.connections[i].to.nodeId = cand.to.nodeId
                       /\ B.connections[i].to.port = cand.to.port
                /\ ~\E i \in DOMAIN B.connections :
                       /\ B.connections[i].to.nodeId = cand.to.nodeId
                       /\ B.connections[i].to.port = cand.to.port
        IN  /\ Committed <=> valid
            /\ ~valid => Present = B

C2_Witness ==
    /\ EndpointsResolve
    /\ Committed
    /\ lastEvt.before.connections # <<>>

C4_PortTypesEqual ==
    \A i \in DOMAIN Present.connections :
        LET c == [from |-> Present.connections[i].from, to |-> Present.connections[i].to]
        IN  (HasNode(Present.nodes, c.from.nodeId) /\ HasNode(Present.nodes, c.to.nodeId))
                => /\ HasFromPortDef(Present.nodes, c)
                   /\ HasToPortDef(Present.nodes, c)
                   /\ FromPortDef(Present.nodes, c).type = ToPortDef(Present.nodes, c).type

\* C5: in every reachable state no connection has from.nodeId equal to
\* to.nodeId (I4).
C5_NoSelfLoops ==
    \A i \in DOMAIN Present.connections :
        Present.connections[i].from.nodeId # Present.connections[i].to.nodeId

\* a release that would close a loop on one node of a connected graph was refused
C5_Witness ==
    /\ ReleasedCandidate
    /\ lastEvt.cand.from.nodeId = lastEvt.cand.to.nodeId
    /\ warningMessage = Warning("Cannot connect a node to itself", "", "")
    /\ Present = lastEvt.before
    /\ Present.connections # <<>>

\* C6: in every reachable state both node ids of every connection of the
\* present snapshot are ids of nodes of that snapshot (I2).
C6_EndpointsExist ==
    \A i \in DOMAIN Present.connections :
        /\ HasNode(Present.nodes, Present.connections[i].from.nodeId)
        /\ HasNode(Present.nodes, Present.connections[i].to.nodeId)

\* ------------------------------------------------ the history store alone
SeqFromTo(a, b) == [i \in 1..(b - a + 1) |-> a + i - 1]

\* A value no entry of the store holds yet: each call passes a new snapshot.
FreshValue == maxHistory + 2 + Len(ghTrail)

\* The editor is not mounted while the store is exercised on its own
EditorUnmounted ==
    /\ history = [past |-> <<>>, present |-> AppState(<<>>, <<>>), future |-> <<>>]
    /\ isDragging = FALSE
    /\ newConnection = NoConnection
    /\ connectionPreview = NoPreview
    /\ portPositions = EmptyPositions
    /\ warningMessage = NoWarning
    /\ clipboard = <<>>
    /\ listeners = <<>>
    /\ selectionBox = NoBox
    /\ drag = NoDrag
    /\ pointer = "idle"
    /\ nextId = 1
    /\ nextRef = 1
    /\ lastEvt = Evt("mount", 0, NoCandidate, FALSE, AppState(<<>>, <<>>))
    /\ nEvents = 0

\* Every shape the store can have: lp non-replace sets and lf more, then lf
\* undos, give past = 1..lp, present = lp+1 and lf entries in future
\* (lp = lf = 0 is the store as constructed).  The entries are pairwise
\* distinct; the store never inspects them.
InitHistory ==
    /\ EditorUnmounted
    /\ ViewportAtRest
    /\ DisplayAtRest
    /\ PointersAtRest
    /\ \E lp \in 0..maxHistory : \E lf \in 0..(maxHistory - lp) :
          gh = [past    |-> SeqFromTo(1, lp),
                present |-> lp + 1,
                future  |-> SeqFromTo(lp + 2, lp + 1 + lf)]
    /\ ghTrail = <<>>

Logged(op) == Append(ghTrail, [op |-> op, before |-> gh])

HistSet ==
    /\ Len(ghTrail) < MaxOps
    /\ gh' = set(gh, FreshValue, FALSE)
    /\ ghTrail' = Logged("set")
    /\ UNCHANGED <<editorVars, viewVars, dispVars, ptrVars>>

HistSetReplace ==
    /\ Len(ghTrail) < MaxOps
    /\ gh' = set(gh, FreshValue, TRUE)
    /\ ghTrail' = Logged("replace")
    /\ UNCHANGED <<editorVars, viewVars, dispVars, ptrVars>>

HistUndo ==
    /\ Len(ghTrail) < MaxOps
    /\ gh' = undo(gh)
    /\ ghTrail' = Logged("undo")
    /\ UNCHANGED <<editorVars, viewVars, dispVars, ptrVars>>

HistRedo ==
    /\ Len(ghTrail) < MaxOps
    /\ gh' = redo(gh)
    /\ ghTrail' = Logged("redo")
    /\ UNCHANGED <<editorVars, viewVars, dispVars, ptrVars>>

NextHistory ==
    \/ HistSet
    \/ HistSetReplace
    \/ HistUndo
    \/ HistRedo

SpecHistory == InitHistory /\ [][NextHistory]_vars

\* =================================================== claims: history store
LastOp == ghTrail[Len(ghTrail)]
\* the index in ghTrail where the run of replace sets before the last
\* operation starts (Len(ghTrail) when no replace set precedes it)
ReplaceRunStart ==
    CHOOSE k \in 1..Len(ghTrail) :
        /\ \A j \in k..(Len(ghTrail) - 1) : ghTrail[j].op = "replace"
        /\ (k = 1 \/ ghTrail[k - 1].op # "replace")

\* C7: past never holds more than 50 entries; a non-replace set on a full
\* past discards the oldest entry and keeps the other 49 and the previous
\* present in order.
C7_PastBounded ==
    /\ Len(gh.past) <= maxHistory
    /\ (ghTrail # <<>> /\ LastOp.op = "set" /\ Len(LastOp.before.past) = maxHistory)
          => gh.past = Append(Tail(LastOp.before.past), LastOp.before.present)

C7_Witness ==
    /\ ghTrail # <<>>
    /\ LastOp.op = "set"
    /\ Len(LastOp.before.past) = maxHistory
    /\ Len(gh.past) = maxHistory
    /\ gh.past[1] = LastOp.before.past[2]

\* C8: replace sets followed by one non-replace set add exactly one entry to
\* past, and that entry is the state that was present before the first
\* replace set.
C8_CoalescedEntryIsPreDragState ==
    (/\ Len(ghTrail) >= 2
     /\ LastOp.op = "set"
     /\ ReplaceRunStart < Len(ghTrail)
     /\ Len(LastOp.before.past) < maxHistory)
        => /\ Len(gh.past) = Len(ghTrail[ReplaceRunStart].before.past) + 1
           /\ gh.past[Len(gh.past)] = ghTrail[ReplaceRunStart].before.present

\* C9: with past non-empty, undo followed by redo restores the exact
\* pre-undo past, present and future.
C9_UndoRedoRestores ==
    (/\ Len(ghTrail) >= 2
     /\ LastOp.op = "redo"
     /\ ghTrail[Len(ghTrail) - 1].op = "undo"
     /\ Len(ghTrail[Len(ghTrail) - 1].before.past) > 0)
        => gh = ghTrail[Len(ghTrail) - 1].before

C9_Witness ==
    /\ Len(ghTrail) >= 2
    /\ LastOp.op = "redo"
    /\ ghTrail[Len(ghTrail) - 1].op = "undo"
    /\ Len(ghTrail[Len(ghTrail) - 1].before.past) > 1
    /\ Len(ghTrail[Len(ghTrail) - 1].before.future) > 0
    /\ gh.present = ghTrail[Len(ghTrail) - 1].before.present

\* C10: immediately after a non-replace set, future is empty and canRedo is
\* false, whatever future held before.
C10_SetClearsFuture ==
    (ghTrail # <<>> /\ LastOp.op = "set") => (gh.future = <<>> /\ ~canRedo(gh))

C10_Witness ==
    /\ ghTrail # <<>>
    /\ LastOp.op = "set"
    /\ Len(LastOp.before.future) > 0
    /\ gh.future = <<>>

\* C21: a set with replace: true changes only present: past and future are
\* exactly as they were before it.
C21_ReplaceKeepsStacks ==
    (ghTrail # <<>> /\ LastOp.op = "replace")
        => /\ gh.past = LastOp.before.past
           /\ gh.future = LastOp.before.future
           /\ gh.present # LastOp.before.present

\* a replace set on a store with entries to undo and entries to redo
C21_Witness ==
    /\ ghTrail # <<>>
    /\ LastOp.op = "replace"
    /\ LastOp.before.past # <<>>
    /\ LastOp.before.future # <<>>
    /\ gh.future = LastOp.before.future

\* C22: undo with an empty past and redo with an empty future change nothing;
\* otherwise undo makes the last entry of past the present and puts the
\* previous present at the front of future, and redo makes the first entry
\* of future the present and puts the previous present at the end of past.
C22_UndoRedoSteps ==
    /\ (ghTrail # <<>> /\ LastOp.op = "undo") =>
          LET B == LastOp.before
          IN  IF B.past = <<>> THEN gh = B
              ELSE /\ gh.present = B.past[Len(B.past)]
                   /\ gh.past = SubSeq(B.past, 1, Len(B.past) - 1)
                   /\ gh.future = <<B.present>> \o B.future
    /\ (ghTrail # <<>> /\ LastOp.op = "redo") =>
          LET B == LastOp.before
          IN  IF B.future = <<>> THEN gh = B
              ELSE /\ gh.present = B.future[1]
                   /\ gh.future = Tail(B.future)
                   /\ gh.past = B.past \o <<B.present>>

\* an undo was redone, and a second redo found future empty
C22_Witness ==
    /\ Len(ghTrail) >= 3
    /\ LastOp.op = "redo"
    /\ LastOp.before.future = <<>>
    /\ gh = LastOp.before
    /\ ghTrail[Len(ghTrail) - 1].op = "redo"
    /\ ghTrail[Len(ghTrail) - 1].before.future # <<>>
    /\ ghTrail[Len(ghTrail) - 2].op = "undo"
    /\ ghTrail[Len(ghTrail) - 2].before.past # <<>>

\* ================================================ claims: the splice resolver
\* the connections as the data model has them: {from, to}
Wires(connections) ==
    [i \in DOMAIN connections |->
        [from |-> connections[i].from, to |-> connections[i].to]]

Without(s, i) == SubSeq(s, 1, i - 1) \o SubSeq(s, i + 1, Len(s))

\* the centroid of the rendered port dots of node n of snapshot R
DropCentroid(R, n) == NodeCenter(PortDots(FindNode(R.nodes, n)))

\* the connections of R that do not touch node n, whose two ends are in the
\* port-position table pp, and whose segment is less than 50 units from the
\* centroid of n
NearWires(R, pp, n) ==
    {i \in DOMAIN R.connections :
        /\ R.connections[i].from.nodeId # n
        /\ R.connections[i].to.nodeId # n
        /\ PortKey(R.connections[i].from.nodeId, R.connections[i].from.port) \in DOMAIN pp
        /\ PortKey(R.connections[i].to.nodeId, R.connections[i].to.port) \in DOMAIN pp
        /\ DistLess(distancePointToSegment2(
                        DropCentroid(R, n),
                        pp[PortKey(R.connections[i].from.nodeId, R.connections[i].from.port)],
                        pp[PortKey(R.connections[i].to.nodeId, R.connections[i].to.port)]),
                    [num |-> 50 * 50, den |-> 1])}

\* the ports of node n of snapshot R, of one direction, whose dot is nearest to pos
NearestPorts(R, n, direction, pos) ==
    LET node  == FindNode(R.nodes, n)
        ports == PortsOf(node.type, direction)
    IN  {ports[i].name : i \in {i \in DOMAIN ports :
            \A j \in DOMAIN ports :
                Dist2(DomPortPos(node, direction, i), pos)
                    <= Dist2(DomPortPos(node, direction, j), pos)}}

\* a step that ends a node drag
NodeDragEnds == pointer = "node" /\ pointer' = "idle"

\* C11: when a node with at least one input and one output port is dropped
\* with its port centroid less than 50 units from the segment of a connection
\* X->Y that does not touch it, the resulting connection list no longer holds
\* X->Y and holds exactly two new connections, X->node.bestInput and
\* node.bestOutput->Y, bestInput and bestOutput being the node's ports nearest
\* to the positions of X's and Y's ports; all other connections are unchanged.
C11_SpliceReplacesWire ==
    [][ (/\ NodeDragEnds
         /\ HasNode(history.present.nodes, drag.nodeId)
         /\ PortsOf(FindNode(history.present.nodes, drag.nodeId).type, "input") # <<>>
         /\ PortsOf(FindNode(history.present.nodes, drag.nodeId).type, "output") # <<>>
         /\ NearWires(history.present, portPositions, drag.nodeId) # {})
        => LET R == history.present
               n == drag.nodeId
           IN  \E i \in NearWires(R, portPositions, n) :
                 LET X == R.connections[i].from
                     Y == R.connections[i].to
                 IN  \E bestInput \in NearestPorts(R, n, "input",
                                                    portPositions[PortKey(X.nodeId, X.port)]),
                        bestOutput \in NearestPorts(R, n, "output",
                                                    portPositions[PortKey(Y.nodeId, Y.port)]) :
                       Wires(history'.present.connections)
                         = Wires(Without(R.connections, i))
                             \o << [from |-> X, to |-> Endpoint(n, bestInput)],
                                   [from |-> Endpoint(n, bestOutput), to |-> Y] >>
      ]_vars

\* the port centroid of node n is 50 units or farther from the segment of
\* every connection of R, the segments being those of the port-position table
FarFromEveryWire(R, pp, n) ==
    \A i \in DOMAIN R.connections :
        /\ PortKey(R.connections[i].from.nodeId, R.connections[i].from.port) \in DOMAIN pp
        /\ PortKey(R.connections[i].to.nodeId, R.connections[i].to.port) \in DOMAIN pp
        /\ ~DistLess(distancePointToSegment2(
                        DropCentroid(R, n),
                        pp[PortKey(R.connections[i].from.nodeId, R.connections[i].from.port)],
                        pp[PortKey(R.connections[i].to.nodeId, R.connections[i].to.port)]),
                     [num |-> 50 * 50, den |-> 1])

\* C12: ending a node drag when the node's port centroid is 50 units or
\* farther from the segment of every connection leaves the nodes, the
\* connections and the history stacks unchanged by the drag-end step (the
\* deferred selection of a click, which precedes it, set aside).
C12_FarDropMutatesNothing ==
    [][ (/\ NodeDragEnds
         /\ HasNode(history.present.nodes, drag.nodeId)
         /\ ~(drag.selectOnUp /\ ~drag.hasMoved)
         /\ FarFromEveryWire(history.present, portPositions, drag.nodeId))
        => history' = history
      ]_vars

\* ======================================== claims: rejected connection attempts
\* a step that handles the release of a connection drag on a port dot
PortReleaseStep ==
    /\ nEvents' = nEvents + 1
    /\ lastEvt'.kind = "portUp"
    /\ lastEvt'.had

\* the candidate is one the validation rejects: a missing endpoint, a
\* self-loop, an unresolved node type, an undeclared port, a type mismatch, a
\* duplicate, or an input that is already connected
IsRejected(R, cand) ==
    \/ MissingEndpoint(cand)
    \/ cand.from.nodeId = cand.to.nodeId
    \/ ~HasNodeType(R.nodes, cand.from.nodeId)
    \/ ~HasNodeType(R.nodes, cand.to.nodeId)
    \/ ~HasPortDef(NodeTypeOf(R.nodes, cand.from.nodeId).outputs, cand.from.port)
    \/ ~HasPortDef(NodeTypeOf(R.nodes, cand.to.nodeId).inputs, cand.to.port)
    \/ FromPortDef(R.nodes, cand).type # ToPortDef(R.nodes, cand).type
    \/ \E i \in DOMAIN R.connections :
          R.connections[i].from = cand.from /\ R.connections[i].to = cand.to
    \/ \E i \in DOMAIN R.connections : R.connections[i].to = cand.to

\* C13: every rejected connection attempt (self-loop, unresolved node type,
\* undeclared port, type mismatch, duplicate, input already connected, or
\* missing endpoint) leaves the connection list, the node list and the
\* past/future stacks exactly as they were before the attempt.
C13_RejectionChangesNothing ==
    [][ (PortReleaseStep /\ IsRejected(history.present, lastEvt'.cand))
        => history' = history ]_vars

\* an attempt was rejected with a warning in a store that has a past entry
C13_Witness ==
    /\ lastEvt.kind = "portUp"
    /\ lastEvt.had
    /\ IsRejected(lastEvt.before, lastEvt.cand)
    /\ warningMessage # NoWarning
    /\ Present = lastEvt.before
    /\ history.past # <<>>

\* ================================================== claims: moving the selection
\* node d of snapshot B is selected together with at least one other node
SelectedWithOthers(B, d) ==
    /\ HasNode(B.nodes, d)
    /\ FindNode(B.nodes, d).selected
    /\ \E i \in DOMAIN B.nodes : B.nodes[i].selected /\ B.nodes[i].id # d

\* every node of B is in A, the selected ones translated by (dx, dy) and the
\* others where they were
SelectionTranslated(B, A, dx, dy) ==
    \A i \in DOMAIN B.nodes :
        /\ HasNode(A.nodes, B.nodes[i].id)
        /\ FindNode(A.nodes, B.nodes[i].id).x
              = B.nodes[i].x + (IF B.nodes[i].selected THEN dx ELSE 0)
        /\ FindNode(A.nodes, B.nodes[i].id).y
              = B.nodes[i].y + (IF B.nodes[i].selected THEN dy ELSE 0)

\* C14: when the dragged node is selected together with at least one other
\* node, after each pointer-move event every selected node has been translated
\* by the same delta as the dragged node, and no unselected node has moved.
C14_GroupMoveTranslatesSelection ==
    (lastEvt.kind = "nodeMove" /\ SelectedWithOthers(lastEvt.before, lastEvt.nodeId))
        => /\ HasNode(Present.nodes, lastEvt.nodeId)
           /\ SelectionTranslated(lastEvt.before, Present,
                  FindNode(Present.nodes, lastEvt.nodeId).x
                      - FindNode(lastEvt.before.nodes, lastEvt.nodeId).x,
                  FindNode(Present.nodes, lastEvt.nodeId).y
                      - FindNode(lastEvt.before.nodes, lastEvt.nodeId).y)

\* C15: an arrow key pressed without ctrl/cmd while k >= 1 nodes are selected
\* yields a committed snapshot in which every selected node is translated by
\* 10 units (50 with shift) along the key's axis and every unselected node is
\* unchanged, for every k including k >= 2.
C15_ArrowKeyTranslatesSelection ==
    (lastEvt.kind \in ArrowKeys /\ SelectedNodes(lastEvt.before.nodes) # <<>>)
        => LET step == IF lastEvt.had THEN 50 ELSE 10
               dx   == CASE lastEvt.kind = "ArrowLeft"  -> -step
                         [] lastEvt.kind = "ArrowRight" -> step
                         [] OTHER -> 0
               dy   == CASE lastEvt.kind = "ArrowUp"   -> -step
                         [] lastEvt.kind = "ArrowDown" -> step
                         [] OTHER -> 0
           IN  Present.nodes =
                   [i \in DOMAIN lastEvt.before.nodes |->
                       IF lastEvt.before.nodes[i].selected
                       THEN [lastEvt.before.nodes[i] EXCEPT !.x = @ + dx, !.y = @ + dy]
                       ELSE lastEvt.before.nodes[i]]

\* ================================================= claims: the box selection
\* a pointer-up ends the box selection in progress
BoxSelectionEnds == pointer = "box" /\ pointer' = "idle"

\* the ids of the nodes on the platform whose bounding box overlaps or touches
\* the rectangle spanned by the two corners of the box
Overlapped ==
    LET a == selectionBox.start
        b == selectionBox.end
    IN  {n \in NodeIds(history.present.nodes) :
            LET rect == BoundingClientRect(FindNode(history.present.nodes, n))
            IN  /\ rect.left <= Max({a.x, b.x}) /\ Min({a.x, b.x}) <= rect.right
                /\ rect.top <= Max({a.y, b.y}) /\ Min({a.y, b.y}) <= rect.bottom}

\* C16: the pointer-up of a box selection whose rectangle overlaps at least
\* one node (touching counts) leaves exactly the overlapped nodes selected.
C16_BoxSelectsOverlapped ==
    [][(BoxSelectionEnds /\ Overlapped # {})
          => NodeIds(SelectedNodes(history'.present.nodes)) = Overlapped]_vars

\* ========================================================== the viewport
\* The editor and the store are not exercised with the viewport or the display
StoreAtRest ==
    /\ gh = [past |-> <<>>, present |-> 0, future |-> <<>>]
    /\ ghTrail = <<>>

MaxWheel == 3

\* e.deltaY of the wheel events: one pixel, one notch of a mouse wheel, and a
\* fling longer than the whole range of the scale, each way
WheelDeltas == {-3000, -120, -1, 1, 120, 3000}

\* the wheel's updater with no upper bound
wheelScale_NoUpperBound(prev, deltaY) == Max({200, prev - deltaY})

\* setScale's updater: Math.min(Math.max(0.2, prev + delta), 2) with
\* delta = -e.deltaY * 0.001, in thousandths
wheelScale(prev, deltaY) == Min({Max({200, prev - deltaY}), 2000})

InitViewport ==
    /\ EditorUnmounted
    /\ StoreAtRest
    /\ DisplayAtRest
    /\ ViewportAtRest
    /\ PointersAtRest

\* handleWheel; ctrl is e.ctrlKey || e.metaKey
Wheel(ctrl, deltaY) ==
    /\ nWheel < MaxWheel
    /\ scale' = IF ctrl THEN wheelScale(scale, deltaY) ELSE scale
    /\ offset' = IF ctrl THEN Point(offset.x - deltaY, offset.y)
                 ELSE Point(offset.x, offset.y - deltaY)
    /\ nWheel' = nWheel + 1
    /\ UNCHANGED <<histVars, editorVars, dispVars, ptrVars>>

NextViewport ==
    \/ \E ctrl \in BOOLEAN, deltaY \in WheelDeltas : Wheel(ctrl, deltaY)

SpecViewport == InitViewport /\ [][NextViewport]_vars

\* ==================================================== claims: the viewport
\* C17: after any sequence of wheel events, with or without ctrl/cmd and with
\* any deltaY, the scale is between 0.2 and 2.0.
C17_ScaleWithinBounds == 200 <= scale /\ scale <= 2000

\* zooming wheel events took the scale to its upper bound and would have
\* taken it beyond (the horizontal offset has their sum)
C17_Witness ==
    /\ nWheel > 0
    /\ scale = 2000
    /\ 1000 + offset.x > 2000

\* =========================================================== the display
MaxRenders == 3

\* The host's returningCallback: none given, one that returns the snapshot
\* without its connections, one that throws, one that throws on a snapshot
\* with connections and returns the others as they are
Callbacks == {"none", "hidesConnections", "throws", "throwsWhenConnected"}

\* returningCallback(state): whether it threw, and what it returned if not
Call(cb, state) ==
    CASE cb = "hidesConnections" -> [threw |-> FALSE, value |-> AppState(state.nodes, <<>>)]
      [] cb = "throws" -> [threw |-> TRUE, value |-> state]
      [] cb = "throwsWhenConnected" -> [threw |-> state.connections # <<>>, value |-> state]

\* the display with the exception left to end the render: nothing is shown
displayState_NoCatch(state, cb) ==
    IF cb = "none" THEN state
    ELSE IF Call(cb, state).threw THEN AppState(<<>>, <<>>)
    ELSE Call(cb, state).value

\* the useMemo that gives displayNodes and displayConnections
displayState(state, cb) ==
    IF cb = "none" THEN state
    ELSE IF Call(cb, state).threw THEN state
    ELSE Call(cb, state).value

\* the snapshots the host loads
Loadable == InitialGraphs \cup {AppState(<<>>, <<>>)}

InitDisplay ==
    /\ EditorUnmounted
    /\ StoreAtRest
    /\ ViewportAtRest
    /\ PointersAtRest
    /\ \E g \in InitialGraphs, cb \in Callbacks :
          /\ committed = [past |-> <<>>, present |-> g, future |-> <<>>]
          /\ returningCallback = cb
          /\ processedState = displayState(g, cb)
          /\ lastRender = RenderCause("mount", committed, g)
    /\ nRenders = 0

\* handle.load(data), and the render it causes
DisplayLoad(g) ==
    /\ nRenders < MaxRenders
    /\ committed' = set(committed, g, FALSE)
    /\ processedState' = displayState(committed'.present, returningCallback)
    /\ lastRender' = RenderCause("load", committed, g)
    /\ nRenders' = nRenders + 1
    /\ UNCHANGED returningCallback
    /\ UNCHANGED <<histVars, editorVars, viewVars, ptrVars>>

\* handle.undo()
DisplayUndo ==
    /\ nRenders < MaxRenders
    /\ canUndo(committed)
    /\ committed' = undo(committed)
    /\ processedState' = displayState(committed'.present, returningCallback)
    /\ lastRender' = RenderCause("undo", committed, committed.present)
    /\ nRenders' = nRenders + 1
    /\ UNCHANGED returningCallback
    /\ UNCHANGED <<histVars, editorVars, viewVars, ptrVars>>

\* handle.redo()
DisplayRedo ==
    /\ nRenders < MaxRenders
    /\ canRedo(committed)
    /\ committed' = redo(committed)
    /\ processedState' = displayState(committed'.present, returningCallback)
    /\ lastRender' = RenderCause("redo", committed, committed.present)
    /\ nRenders' = nRenders + 1
    /\ UNCHANGED returningCallback
    /\ UNCHANGED <<histVars, editorVars, viewVars, ptrVars>>

\* the host renders NodeSystem with another returningCallback
HostSetsCallback(cb) ==
    /\ nRenders < MaxRenders
    /\ cb # returningCallback
    /\ returningCallback' = cb
    /\ processedState' = displayState(committed.present, cb)
    /\ lastRender' = RenderCause("callback", committed, committed.present)
    /\ nRenders' = nRenders + 1
    /\ UNCHANGED committed
    /\ UNCHANGED <<histVars, editorVars, viewVars, ptrVars>>

NextDisplay ==
    \/ \E g \in Loadable : DisplayLoad(g)
    \/ DisplayUndo
    \/ DisplayRedo
    \/ \E cb \in Callbacks : HostSetsCallback(cb)

SpecDisplay == InitDisplay /\ [][NextDisplay]_vars

\* ===================================================== claims: the display
\* the callback given throws on the committed snapshot
CallbackThrows == returningCallback # "none" /\ Call(returningCallback, committed.present).threw

\* the store is what the last operation alone makes of the store before it
StoreAsOperationLeftIt ==
    committed = CASE lastRender.op = "load" -> set(lastRender.before, lastRender.arg, FALSE)
                  [] lastRender.op = "undo" -> undo(lastRender.before)
                  [] lastRender.op = "redo" -> redo(lastRender.before)
                  [] OTHER -> lastRender.before

\* C18: when the host's callback throws, what is displayed is the committed
\* present snapshot, nodes and connections, and the store (past, present and
\* future) is what it is without the failure.
C18_ThrowingCallbackShowsCommitted ==
    CallbackThrows => (processedState = committed.present /\ StoreAsOperationLeftIt)

\* a snapshot with connections was loaded over another under a callback that
\* throws on it
C18_Witness ==
    /\ CallbackThrows
    /\ lastRender.op = "load"
    /\ committed.present.connections # <<>>
    /\ committed.past # <<>>
    /\ processedState = committed.present

\* ============================================ claims: the gesture listeners
\* C19: once the pointer-up of a gesture (pan, box selection or node drag) has
\* been handled, none of the window pointermove/pointerup listeners that
\* gestures installed is registered.
C19_NoListenerAfterGestures == pointer = "idle" => listeners = <<>>

\* ========================================== claims: the end of a connection drag
\* the last event was a pointer-up, on a port dot or elsewhere on the
\* platform, while a connection was being dragged
ConnectionDragEnded == lastEvt.kind \in {"portUp", "platformUp"} /\ lastEvt.had

\* C20: after every pointer-up that ends a connection drag, on a port
\* (commit, rejection or silent abort) or elsewhere on the platform,
\* newConnection and the preview line are both null.
C20_DragStateCleared ==
    ConnectionDragEnded => (newConnection = NoConnection /\ connectionPreview = NoPreview)

\* a connection dragged from a measured port was dropped on the background
C20_Witness ==
    /\ lastEvt.kind = "platformUp"
    /\ lastEvt.had
    /\ newConnection = NoConnection
    /\ connectionPreview = NoPreview

\* ========================================= claims: the order of the rules
\* Whether rule k of the order (1 self-loop, 2 unresolved node type,
\* 3 undeclared port, 4 type mismatch, 5 exact duplicate, 6 input already
\* connected) fails for the candidate; a rule that needs what an earlier one
\* establishes fails only where it can be evaluated.
RuleFails(k, R, cand) ==
    LET typed    == HasNodeType(R.nodes, cand.from.nodeId) /\ HasNodeType(R.nodes, cand.to.nodeId)
        declared == typed /\ HasFromPortDef(R.nodes, cand) /\ HasToPortDef(R.nodes, cand)
    IN  CASE k = 1 -> cand.from.nodeId = cand.to.nodeId
          [] k = 2 -> ~typed
          [] k = 3 -> typed /\ ~declared
          [] k = 4 -> declared /\ FromPortDef(R.nodes, cand).type # ToPortDef(R.nodes, cand).type
          [] k = 5 -> \E i \in DOMAIN R.connections :
                         R.connections[i].from = cand.from /\ R.connections[i].to = cand.to
          [] k = 6 -> \E i \in DOMAIN R.connections : R.connections[i].to = cand.to

FailingRules(R, cand) == {k \in 1..6 : RuleFails(k, R, cand)}

\* the text of the warning of rule k
RuleText(k) ==
    CASE k = 1 -> "Cannot connect a node to itself"
      [] k = 2 -> "Invalid node types"
      [] k = 3 -> "Port not found in node definition"
      [] k = 4 -> "Cannot connect ports of different types: ${fromPortDef.type} and ${toPortDef.type}"
      [] k = 5 -> "This connection already exists"
      [] k = 6 -> "Input port \"${toPortName}\" is already connected"

\* C23: when the candidate released on a port fails one or more rules, the
\* warning shown is the one of the earliest failing rule in the order
\* self-loop, unresolved node type, undeclared port, type mismatch, exact
\* duplicate, input already connected.
C23_EarliestRuleWarns ==
    (ReleasedCandidate /\ FailingRules(lastEvt.before, lastEvt.cand) # {})
        => warningMessage.text = RuleText(Min(FailingRules(lastEvt.before, lastEvt.cand)))

\* a release that closes a loop on one node between ports of different types
C23_Witness ==
    /\ ReleasedCandidate
    /\ {1, 4} \subseteq FailingRules(lastEvt.before, lastEvt.cand)
    /\ warningMessage.text = RuleText(1)

\* ================================= claims: the press on a connected input
\* the last event was a press on an input port that had an incoming
\* connection, the position of its dot being known
PressedConnectedInput ==
    /\ lastEvt.kind = "portDown"
    /\ lastEvt.had
    /\ lastEvt.cand.to # NoEndpoint
    /\ \E i \in DOMAIN lastEvt.before.connections :
          lastEvt.before.connections[i].to = lastEvt.cand.to

\* C24: a pointer-down on an input port that has an incoming connection
\* removes exactly that connection and starts no connection drag
\* (newConnection and the preview are null), and the pointer-up on a port
\* that follows it commits nothing.
C24_PressOnConnectedInputDisconnects ==
    /\ [](PressedConnectedInput
            => /\ Present.nodes = lastEvt.before.nodes
               /\ \E i \in DOMAIN lastEvt.before.connections :
                     /\ lastEvt.before.connections[i].to = lastEvt.cand.to
                     /\ Present.connections = Without(lastEvt.before.connections, i)
               /\ newConnection = NoConnection
               /\ connectionPreview = NoPreview)
    /\ [][(PressedConnectedInput /\ lastEvt'.kind = "portUp") => history' = history]_vars

\* ============================================ claims: the press on a node
\* the last event was a primary-button press on a node that was selected
PressedSelectedNode ==
    /\ lastEvt.kind = "nodeDown"
    /\ FindNode(lastEvt.before.nodes, lastEvt.nodeId).selected

\* C25: a pointer-down on a selected node with ctrl, cmd or shift held
\* toggles that node's selection off at once and leaves the selection of
\* every other node as it was.
C25_ModifierPressTogglesOff ==
    (PressedSelectedNode /\ lastEvt.had)
        => /\ Present.connections = lastEvt.before.connections
           /\ Present.nodes =
                 [i \in DOMAIN lastEvt.before.nodes |->
                     IF lastEvt.before.nodes[i].id = lastEvt.nodeId
                     THEN [lastEvt.before.nodes[i] EXCEPT !.selected = FALSE]
                     ELSE lastEvt.before.nodes[i]]

Sel(nodes) == NodeIds(SelectedNodes(nodes))

\* the pointer-up of a gesture that began with a press without modifiers on
\* a selected node, the node still being on the platform
DeferredUp ==
    /\ pointer = "node"
    /\ pointer' = "idle"
    /\ drag.selectOnUp
    /\ HasNode(history.present.nodes, drag.nodeId)

\* p is more than 2 pixels from where the dragged node was at the press
FarFromPress(p) == Abs(p.x - drag.initX) > 2 \/ Abs(p.y - drag.initY) > 2

\* the event before the pointer-up was a pointermove of the gesture, which
\* took the node from one place to another
AfterMove ==
    /\ lastEvt.kind = "nodeMove"
    /\ HasNode(lastEvt.before.nodes, drag.nodeId)

\* a pointermove of the gesture exceeded 2 pixels: the last one, or the one
\* that left the node where the last one found it
Exceeded ==
    /\ AfterMove
    /\ \/ FarFromPress(FindNode(history.present.nodes, drag.nodeId))
       \/ FarFromPress(FindNode(lastEvt.before.nodes, drag.nodeId))

\* no pointermove of the gesture exceeded 2 pixels: there was none, or one
\* only, which took the node to within 2 pixels of where it was
Within ==
    \/ lastEvt.kind = "nodeDown"
    \/ /\ AfterMove
       /\ ~FarFromPress(FindNode(history.present.nodes, drag.nodeId))
       /\ \/ FindNode(history.present.nodes, drag.nodeId).x # drag.initX
          \/ FindNode(history.present.nodes, drag.nodeId).y # drag.initY
       /\ FindNode(lastEvt.before.nodes, drag.nodeId).x = drag.initX
       /\ FindNode(lastEvt.before.nodes, drag.nodeId).y = drag.initY

\* the node is selected with others and is dragged for the first time, so
\* that a selection made at the pointer-up shows
SelectionShows ==
    /\ drag.nodeId \in Sel(history.present.nodes)
    /\ Cardinality(Sel(history.present.nodes)) >= 2
    /\ Cardinality({i \in DOMAIN listeners : listeners[i].nodeId = drag.nodeId}) = 1

\* the states the pointer-up wrote: the present it left, and the entry it
\* pushed on the past when a splice followed the selection
WrittenAtUp ==
    {history'.present} \cup
        (IF history'.past # history.past /\ Len(history'.past) > 0
         THEN {history'.past[Len(history'.past)]} ELSE {})

BoxReleased == pointer = "box" /\ pointer' = "idle"

\* the rectangle of the box selection in progress meets no rendered node
BoxMeetsNoNode ==
    selectedIds(history.present.nodes, selectionBox.start, selectionBox.end) = {}

\* C27: a box selection whose rectangle meets no node calls no selection
\* callback and changes no selected flag, and after the pointer-up of any box
\* selection the rectangle is null.
C27_EmptyBoxSelectsNothing ==
    /\ [][(BoxReleased /\ BoxMeetsNoNode) => history' = history]_vars
    /\ [][BoxReleased => selectionBox' = NoBox]_vars

\* ------------------------------------- claims: the press on the background
\* a button is pressed on the platform background
BackgroundPress ==
    /\ pointer = "idle"
    /\ lastEvt'.kind \in {"platformDown", "boxDown", "middleDown", "otherDown"}
    /\ nEvents' = nEvents + 1

\* the window listeners the step adds
Added == SubSeq(listeners', Len(listeners) + 1, Len(listeners'))

DeletePressed == lastEvt'.kind = "delete" /\ nEvents' = nEvents + 1

\* the connection has an endpoint on one of the nodes
Touches(c, ids) == c.from.nodeId \in ids \/ c.to.nodeId \in ids

\* C29: Delete or Backspace with a node selected removes the selected nodes
\* and the connections with an endpoint on one of them, keeps every other node
\* and connection, and adds one entry to the past; with no node selected it
\* changes nothing.
C29_DeleteRemovesSelected ==
    [][DeletePressed =>
          LET R   == history.present
              ids == Sel(R.nodes)
          IN  IF ids = {} THEN history' = history /\ clipboard' = clipboard
              ELSE /\ history'.present.nodes = SelectSeq(R.nodes, LAMBDA n : ~n.selected)
                   /\ history'.present.connections =
                          SelectSeq(R.connections, LAMBDA c : ~Touches(c, ids))
                   /\ history'.past = Append(history.past, R)]_vars

\* the selected nodes were deleted with some connection, and other nodes and
\* connections are left
C29_Witness ==
    /\ lastEvt.kind = "delete"
    /\ Sel(lastEvt.before.nodes) # {}
    /\ NodeIds(Present.nodes) = NodeIds(lastEvt.before.nodes) \ Sel(lastEvt.before.nodes)
    /\ Present.connections # <<>>
    /\ Len(Present.connections) < Len(lastEvt.before.connections)

\* ---------------------------------------------------- claims: the paste
\* Ctrl/Cmd+V is pressed with nodes on the clipboard
PastePressed == lastEvt'.kind = "paste" /\ nEvents' = nEvents + 1

WireA == Connection(1, Endpoint(1, "Result"), Endpoint(2, "A"))
WireB == Connection(2, Endpoint(1, "Result"), Endpoint(4, "A"))
WireC == Connection(3, Endpoint(1, "Result"), Endpoint(3, "Numer"))
WireLists ==
    {<<>>, <<WireA>>, <<WireB>>, <<WireA, WireB>>, <<WireB, WireA>>,
     <<WireC, WireA>>, <<WireA, WireC, WireB>>}

\* Where block 3 lies: its centroid 20 units from wire A and nearer to wire B,
\* exactly 50 units from wire A, and more than 50 units from both
DropPoints == {Point(50, 16), Point(50, 46), Point(50, 100)}

SpliceGraphs ==
    {AppState(<<NodeData(1, "add", 0, 0, FALSE), NodeData(2, "subtract", 90, 0, FALSE),
                NodeData(3, "test", p.x, p.y, FALSE), NodeData(4, "add", 90, 60, FALSE)>>,
              ws) : p \in DropPoints, ws \in WireLists}

\* portPositions once the nodes of M, and no others, have measured their dots
RECURSIVE MeasuredAll(_, _, _)
MeasuredAll(pp, nodes, M) ==
    IF nodes = <<>> THEN pp
    ELSE MeasuredAll(IF Head(nodes).id \in M THEN MeasuredPositions(pp, Head(nodes)) ELSE pp,
                     Tail(nodes), M)

InitSplice ==
    /\ \E g \in SpliceGraphs :
          /\ history = [past |-> <<>>, present |-> g, future |-> <<>>]
          /\ \E M \in SUBSET NodeIds(g.nodes) :
                portPositions = MeasuredAll(EmptyPositions, g.nodes, M)
    /\ isDragging = FALSE
    /\ newConnection = NoConnection
    /\ connectionPreview = NoPreview
    /\ warningMessage = NoWarning
    /\ clipboard = <<>>
    /\ listeners = <<>>
    /\ selectionBox = NoBox
    /\ drag = NoDrag
    /\ pointer = "idle"
    /\ nextId = 5
    /\ nextRef = 4
    /\ lastEvt = Evt("mount", 0, NoCandidate, FALSE, AppState(<<>>, <<>>))
    /\ nEvents = 0
    /\ gh = [past |-> <<>>, present |-> 0, future |-> <<>>]
    /\ ghTrail = <<>>
    /\ ViewportAtRest
    /\ DisplayAtRest
    /\ PointersAtRest

NextSplice ==
    \/ \E n \in Rendered, mods \in Modifiers : NodePointerDown(n, mods)
    \/ \E ctrl \in BOOLEAN : NodePointerUp(ctrl)
    \/ Undo

SpecSplice == InitSplice /\ [][NextSplice]_vars

\* --------------------------------------- claims: the connection to splice
\* the render whose handleNodeDragEndWrapper ends the drag: its edges and its
\* portPositions are what the resolver reads
EndingView == listeners[FirstHearing(listeners, drag)].view

\* the connections the resolver may choose: they do not touch the dropped
\* node and the positions of both their ends are known
Eligible(V, n) ==
    {i \in DOMAIN V.R.connections :
        LET c == V.R.connections[i]
        IN  /\ c.from.nodeId # n /\ c.to.nodeId # n
            /\ PortKey(c.from.nodeId, c.from.port) \in DOMAIN V.pp
            /\ PortKey(c.to.nodeId, c.to.port) \in DOMAIN V.pp}

\* the distance, squared, from the centroid of the dots of node n to the
\* segment of connection i
CentroidDist2(V, R, n, i) ==
    LET c == V.R.connections[i]
    IN  distancePointToSegment2(DropCentroid(R, n),
                                V.pp[PortKey(c.from.nodeId, c.from.port)],
                                V.pp[PortKey(c.to.nodeId, c.to.port)])

Below50(f) == DistLess(f, [num |-> 50 * 50, den |-> 1])

SpliceStep == NodeDragEnds /\ lastEvt'.had

\* the connection objects of a snapshot
Refs(connections) == {connections[i].ref : i \in DOMAIN connections}

\* the connection object the splice replaces, and the two it creates
ChosenRefs ==
    {c.ref : c \in {EndingView.R.connections[i] : i \in DOMAIN EndingView.R.connections} \cap
                   {c \in {EndingView.R.connections[i] : i \in DOMAIN EndingView.R.connections} :
                       [from |-> c.from, to |-> c.to] = lastEvt'.cand}}
CreatedRefs == {nextRef, nextRef + 1}

\* C32: a splice is one history step: the past grows by one entry, the new
\* present has the two new connections without the original one, and the
\* snapshot an undo restores has the original connection and neither of the
\* new ones.
C32_SpliceIsOneStep ==
    [][SpliceStep =>
          /\ Len(history'.past) = Len(history.past) + 1
          /\ CreatedRefs \subseteq Refs(history'.present.connections)
          /\ ChosenRefs \cap Refs(history'.present.connections) = {}
          /\ ChosenRefs \subseteq Refs(undo(history').present.connections)
          /\ CreatedRefs \cap Refs(undo(history').present.connections) = {}]_vars

\* ================================================= the warning and its timer
\* Connection drags, presses on the background and on nodes, and the timer of
\* the warning effect: a timeout that is set runs out (the effect clears it
\* only to set it again when the warning changes)
NextWarning ==
    \/ \E n \in Rendered : MeasurePorts(n)
    \/ WarningTimeout
    \/ \E n \in Rendered, direction \in Directions : \E idx \in Dots(n, direction) :
          PortPointerDown(n, direction, idx)
    \/ \E n \in Rendered, direction \in Directions : \E idx \in Dots(n, direction) :
          PortPointerUp(n, direction, idx)
    \/ \E ctrl \in BOOLEAN : PlatformPointerDown(ctrl)
    \/ \E p \in BoxCorners : BoxPointerDown(p)
    \/ PlatformPointerUp
    \/ \E n \in Rendered, mods \in Modifiers : NodePointerDown(n, mods)
    \/ \E ctrl \in BOOLEAN : NodePointerUp(ctrl)

SpecWarning == Init /\ [][NextWarning]_vars /\ WF_vars(WarningTimeout)

\* ------------------------------------------------ claims: the warning clears
\* the primary button is pressed on the platform background or on a port dot
PrimaryPress ==
    /\ pointer = "idle"
    /\ lastEvt'.kind \in {"platformDown", "boxDown", "portDown"}
    /\ nEvents' = nEvents + 1

\* C33: a warning that is shown is eventually cleared, whether or not a
\* gesture is under way, and a press of the primary button on the platform or
\* on a port clears it at once.
C33_WarningClears ==
    /\ (warningMessage # NoWarning) ~> (warningMessage = NoWarning)
    /\ [][PrimaryPress => warningMessage' = NoWarning]_vars

\* the timer cleared a warning while a button was down
C33_Witness ==
    /\ lastEvt.kind = "timeout"
    /\ warningMessage = NoWarning
    /\ pointer # "idle"

\* ======================================================= several pointers
\* Node drags with two pointers (two fingers, or a finger and the mouse): each
\* Node has its own dragState with the pointerId of its press; the window
\* listeners of all of them hear every pointermove and pointerup; NodeSystem
\* has one isDraggingRef for all.
Pointers == {1, 2}
\* pressed[P]: 0 while P is up, -1 when P went down away from every node
Outside == -1

PointerDrag(dragging, pointerId, initX, initY, hasMoved, selectOnUp) ==
    [dragging |-> dragging, pointerId |-> pointerId, initX |-> initX, initY |-> initY,
     hasMoved |-> hasMoved, selectOnUp |-> selectOnUp]
NoPointerDrag == PointerDrag(FALSE, 0, 0, 0, FALSE, FALSE)

\* if (!dragState.current.dragging) return;
\* if (e.pointerId !== dragState.current.pointerId) return;
HearsPointer(l, ds, P) == ds[l.nodeId].dragging /\ ds[l.nodeId].pointerId = P

\* window pointermove of pointer P, d from where P was pressed: every
\* onPointerMove listener, oldest first
RECURSIVE PointerMoves(_, _, _, _, _)
PointerMoves(st, ls, P, d, dragging) ==
    IF ls = <<>> THEN st
    ELSE LET l == Head(ls)
             n == l.nodeId
         IN  PointerMoves(
               IF HearsPointer(l, st.ds, P)
               THEN [h  |-> onMove(st.h, l.view.R, n, st.ds[n].initX + d.x,
                                   st.ds[n].initY + d.y, dragging),
                     ds |-> [st.ds EXCEPT ![n].hasMoved = @ \/ movedEnough(d.x, d.y)]]
               ELSE st,
               Tail(ls), P, d, dragging)

\* window pointerup of pointer P: every onPointerUp listener, oldest first,
\* with handleNodeDragEndWrapper as onDragEnd (dom: the nodes rendered last)
RECURSIVE PointerUps(_, _, _, _, _)
PointerUps(st, ls, P, ctrl, dom) ==
    IF ls = <<>> THEN st
    ELSE LET l  == Head(ls)
             n  == l.nodeId
             h1 == IF ~st.ds[n].hasMoved /\ st.ds[n].selectOnUp
                   THEN handleNodeSelect(st.h, l.view.R, n, ctrl)
                   ELSE st.h
             sc == SpliceChoice(l.view, dom.nodes, n)
             h2 == IF sc.found
                   THEN handleSpliceNode(h1, dom, n, sc.edge, sc.inputPort, sc.outputPort,
                                         st.ref, st.ref + 1)
                   ELSE h1
         IN  PointerUps(
               IF HearsPointer(l, st.ds, P)
               THEN [h        |-> h2,
                     ds       |-> [st.ds EXCEPT ![n].dragging = FALSE],
                     dragging |-> FALSE,
                     ended    |-> Append(st.ended, n),
                     ref      |-> IF sc.found THEN st.ref + 2 ELSE st.ref]
               ELSE st,
               Tail(ls), P, ctrl, dom)

InitPointers ==
    /\ \E g \in InitialGraphs :
          /\ history = [past |-> <<>>, present |-> g, future |-> <<>>]
          /\ dragStates = [n \in NodeIds(g.nodes) |-> NoPointerDrag]
    /\ pressed = [P \in Pointers |-> 0]
    /\ ended = <<>>
    /\ lastPtr = 0
    /\ isDragging = FALSE
    /\ newConnection = NoConnection
    /\ connectionPreview = NoPreview
    /\ portPositions = EmptyPositions
    /\ warningMessage = NoWarning
    /\ clipboard = <<>>
    /\ listeners = <<>>
    /\ selectionBox = NoBox
    /\ drag = NoDrag
    /\ pointer = "idle"
    /\ nextId = 4
    /\ nextRef = 3
    /\ lastEvt = Evt("mount", 0, NoCandidate, FALSE, AppState(<<>>, <<>>))
    /\ nEvents = 0
    /\ StoreAtRest
    /\ ViewportAtRest
    /\ DisplayAtRest

\* pointerdown of pointer P on the body of node n, primary button:
\* useNodeDrag.onPointerDown
PtrDown(P, n, mods) ==
    /\ pressed[P] = 0
    /\ nEvents < MaxPointerEvents
    /\ HasNode(history.present.nodes, n)
    /\ LET R    == history.present
           node == FindNode(R.nodes, n)
           isMultiSelect == mods \in {"ctrl", "shift"}
           selects == ~node.selected \/ isMultiSelect
       IN  /\ history' = IF selects
                         THEN handleNodeSelect(history, R, n, mods = "ctrl")
                         ELSE history
           /\ dragStates' = [dragStates EXCEPT
                                ![n] = PointerDrag(TRUE, P, node.x, node.y, FALSE, ~selects)]
           /\ listeners' = Append(listeners, Listener(n, View(R, portPositions)))
           /\ lastEvt' = Evt("ptrDown", n, NoCandidate, isMultiSelect, R)
    /\ isDragging' = TRUE
    /\ pressed' = [pressed EXCEPT ![P] = n]
    /\ ended' = <<>>
    /\ lastPtr' = P
    /\ nEvents' = nEvents + 1
    /\ UNCHANGED <<newConnection, connectionPreview, portPositions, warningMessage,
                   clipboard, selectionBox, drag, pointer, nextId, nextRef>>
    /\ UNCHANGED <<histVars, viewVars, dispVars>>

\* pointerdown of pointer P away from every node and from the platform: no
\* handler of the editor runs
PtrDownOutside(P) ==
    /\ pressed[P] = 0
    /\ nEvents < MaxPointerEvents
    /\ \E n \in DOMAIN dragStates : dragStates[n].dragging
    /\ pressed' = [pressed EXCEPT ![P] = Outside]
    /\ ended' = <<>>
    /\ lastPtr' = P
    /\ lastEvt' = Evt("ptrDownOutside", 0, NoCandidate, FALSE, history.present)
    /\ nEvents' = nEvents + 1
    /\ UNCHANGED <<history, isDragging, newConnection, connectionPreview, portPositions,
                   warningMessage, clipboard, listeners, selectionBox, drag, pointer,
                   nextId, nextRef, dragStates>>
    /\ UNCHANGED <<histVars, viewVars, dispVars>>

\* pointermove of pointer P, down or hovering, while a node is dragged
PtrMove(P, d) ==
    /\ nEvents < MaxPointerEvents
    /\ \E n \in DOMAIN dragStates : dragStates[n].dragging
    /\ LET st == PointerMoves([h |-> history, ds |-> dragStates], listeners, P, d,
                              isDragging)
       IN  /\ history' = st.h
           /\ dragStates' = st.ds
    /\ ended' = <<>>
    /\ lastPtr' = P
    /\ lastEvt' = Evt("ptrMove", IF pressed[P] > 0 THEN pressed[P] ELSE 0, NoCandidate,
                      FALSE, history.present)
    /\ nEvents' = nEvents + 1
    /\ UNCHANGED <<isDragging, newConnection, connectionPreview, portPositions,
                   warningMessage, clipboard, listeners, selectionBox, drag, pointer,
                   nextId, nextRef, pressed>>
    /\ UNCHANGED <<histVars, viewVars, dispVars>>

\* pointerup of pointer P
PtrUp(P, ctrl) ==
    /\ pressed[P] # 0
    /\ nEvents < MaxPointerEvents
    /\ LET st == PointerUps([h |-> history, ds |-> dragStates, dragging |-> isDragging,
                             ended |-> <<>>, ref |-> nextRef],
                            listeners, P, ctrl, history.present)
       IN  /\ history' = st.h
           /\ dragStates' = st.ds
           /\ isDragging' = st.dragging
           /\ ended' = st.ended
           /\ nextRef' = st.ref
    /\ pressed' = [pressed EXCEPT ![P] = 0]
    /\ lastPtr' = P
    /\ lastEvt' = Evt("ptrUp", IF pressed[P] > 0 THEN pressed[P] ELSE 0, NoCandidate,
                      FALSE, history.present)
    /\ nEvents' = nEvents + 1
    /\ UNCHANGED <<newConnection, connectionPreview, portPositions, warningMessage,
                   clipboard, listeners, selectionBox, drag, pointer, nextId>>
    /\ UNCHANGED <<histVars, viewVars, dispVars>>

NextPointers ==
    \/ \E P \in Pointers, n \in Rendered, mods \in {"none", "ctrl"} : PtrDown(P, n, mods)
    \/ \E P \in Pointers : PtrDownOutside(P)
    \/ \E P \in Pointers, d \in Offsets : PtrMove(P, d)
    \/ \E P \in Pointers, ctrl \in BOOLEAN : PtrUp(P, ctrl)

SpecPointers == InitPointers /\ [][NextPointers]_vars

\* ----------------------------------------- claims: the pointer of a drag
\* a pointermove or a pointerup is handled
MoveOrUp == lastEvt'.kind \in {"ptrMove", "ptrUp"} /\ nEvents' = nEvents + 1

\* the nodes being dragged by another pointer than that of the event
DraggedByOthers ==
    {n \in DOMAIN dragStates :
        dragStates[n].dragging /\ dragStates[n].pointerId # lastPtr'}

\* where node n is in a snapshot
PositionOf(R, n) == Point(FindNode(R.nodes, n).x, FindNode(R.nodes, n).y)

\* C34: while a node is dragged by pointer P, a pointermove or pointerup of
\* another pointer neither moves the node nor ends its drag; only the
\* pointerup of P ends it.
C34_OtherPointersIgnored ==
    /\ [][MoveOrUp =>
            \A n \in DraggedByOthers :
               /\ PositionOf(history'.present, n) = PositionOf(history.present, n)
               /\ dragStates'[n] = dragStates[n]]_vars
    /\ [][\A n \in DOMAIN dragStates :
             (dragStates[n].dragging /\ ~dragStates'[n].dragging) =>
                 lastEvt'.kind = "ptrUp" /\ lastPtr' = dragStates[n].pointerId]_vars

\* ------------------------------------------- claims: the end of a drag
\* the pointerup of a pointer that was pressed on a node
GestureEnds ==
    /\ lastEvt'.kind = "ptrUp"
    /\ nEvents' = nEvents + 1
    /\ pressed[lastPtr'] > 0

\* how many times onDragEnd was called for node n in the last event
RECURSIVE TimesEnded(_, _)
TimesEnded(es, n) ==
    IF es = <<>> THEN 0
    ELSE (IF Head(es) = n THEN 1 ELSE 0) + TimesEnded(Tail(es), n)

\* C36: every node drag fires drag-end exactly once, at the pointerup of its
\* own pointer, moved or not, with or without a deferred selection; drag-end
\* fires at no other event and never twice for one gesture.
C36_DragEndOncePerGesture ==
    /\ [][GestureEnds =>
            /\ TimesEnded(ended', pressed[lastPtr']) = 1
            /\ Len(ended') = 1]_vars
    /\ [][(nEvents' = nEvents + 1 /\ ~GestureEnds) => ended' = <<>>]_vars

\* ------------------------------------- claims: position updates of a drag
\* a pointermove that the drag of some node hears
DragMoves ==
    /\ lastEvt'.kind = "ptrMove"
    /\ nEvents' = nEvents + 1
    /\ \E n \in DOMAIN dragStates :
          dragStates[n].dragging /\ dragStates[n].pointerId = lastPtr'

\* C37: every position update of a node drag, from its pointerdown to its own
\* pointerup, is committed with replace and leaves the length of past as it
\* is, also when the drag of a second node by another pointer ends first.
C37_MovesReplace == [][DragMoves => Len(history'.past) = Len(history.past)]_vars

\* --------------------------------------- claims: the committed connection
\* a release on a port dot that commits a connection
ConnectionCommits ==
    /\ lastEvt'.kind = "portUp"
    /\ nEvents' = nEvents + 1
    /\ history' # history

\* the port the drag started from
PressedEndpoint == Endpoint(newConnection.nodeId, newConnection.port)

\* the names of the ports of one direction of node id
PortNames(nodes, id, direction) ==
    LET ports == PortsOf(FindNode(nodes, id).type, direction)
    IN  {ports[i].name : i \in DOMAIN ports}

\* C35: a successful connection drag appends exactly one connection at the
\* end of the list, from the output port to the input port whether it was
\* started at the output or at the input; the connections before it are kept
\* in order and the new one carries only node ids and port names.
C35_CommitAppendsOutputToInput ==
    [][ConnectionCommits =>
         LET old  == history.present.connections
             new  == history'.present.connections
             last == new[Len(new)]
         IN  /\ Len(new) = Len(old) + 1
             /\ SubSeq(new, 1, Len(old)) = old
             /\ history'.present.nodes = history.present.nodes
             /\ last.from.port \in PortNames(history.present.nodes, last.from.nodeId, "output")
             /\ last.to.port \in PortNames(history.present.nodes, last.to.nodeId, "input")
             /\ newConnection.side = "from" =>
                   last.from = PressedEndpoint /\ last.to.nodeId = lastEvt'.nodeId
             /\ newConnection.side = "to" =>
                   last.to = PressedEndpoint /\ last.from.nodeId = lastEvt'.nodeId
             /\ DOMAIN last.from = {"nodeId", "port"}
             /\ DOMAIN last.to = {"nodeId", "port"}]_vars

\* a drag started at an input and released on an output was committed behind
\* a connection that was there before
C35_Witness ==
    /\ ReleasedCandidate
    /\ Committed
    /\ lastEvt.nodeId = lastEvt.cand.from.nodeId
    /\ lastEvt.before.connections # <<>>

\* ------------------------------------------ claims: the size of a history
\* C38: after any sequence of set (replace or not), undo and redo calls the
\* entries of past and of future are together at most 50.
C38_StacksBounded == Len(gh.past) + Len(gh.future) <= maxHistory

\* an undo has moved an entry to future with 50 entries on the two stacks
C38_Witness ==
    /\ ghTrail # <<>>
    /\ LastOp.op = "undo"
    /\ Len(LastOp.before.past) > 0
    /\ Len(gh.future) > 1
    /\ Len(gh.past) + Len(gh.future) = maxHistory

\* --------------------------------------------- claims: a click on a node
\* the pointerdown of a click or of a drag, on the body of a node
NodePressed == pointer = "idle" /\ pointer' = "node"

\* the pointerup of a press that no pointermove took beyond the threshold
NodeClickEnds == NodeDragEnds /\ ~drag.hasMoved

\* C39: a click on a node, a primary pointerdown and a pointerup with no
\* pointermove beyond 2 pixels in between, never changes the connection list
\* and never adds an entry to past.
C39_ClickKeepsWires ==
    [][(NodePressed \/ NodeClickEnds) =>
          /\ history'.present.connections = history.present.connections
          /\ Len(history'.past) = Len(history.past)]_vars

\* ------------------------------- claims: a release on the same kind of port
\* the direction of the port a connection drag started from
StartedFrom == IF newConnection.side = "from" THEN "output" ELSE "input"

\* C40: releasing a connection drag on a port of the direction it started
\* from, output onto output or input onto input, commits no connection, sets
\* no warning message and clears the state of the gesture.
C40_SameDirectionAborts ==
    [][\A n \in Rendered, direction \in Directions : \A idx \in Dots(n, direction) :
          (/\ newConnection # NoConnection
           /\ direction = StartedFrom
           /\ PortReleased(n, direction, idx))
          => /\ history' = history
             /\ warningMessage' = warningMessage
             /\ warningMessage' = NoWarning
             /\ newConnection' = NoConnection
             /\ connectionPreview' = NoPreview]_vars

\* a drag from an output was released on an output
C40_Witness ==
    /\ lastEvt.kind = "portUp"
    /\ lastEvt.had
    /\ lastEvt.cand.to = NoEndpoint
    /\ lastEvt.cand.from.nodeId = lastEvt.nodeId
    /\ Present = lastEvt.before
    /\ warningMessage = NoWarning
    /\ newConnection = NoConnection
    /\ connectionPreview = NoPreview

====
